---- MODULE Spec2Model ----
(***************************************************************************)
(* State-machine model of the vibgyor real-time client:                    *)
(*   - the Transport Channel  (src/src/services/enhancedSocketService.js), *)
(*     with its Signal Buffer (storedWebRTCEvents);                        *)
(*   - the Call Session       (EnhancedVideoCall / EnhancedAudioCall);     *)
(*   - the Session Registry   (src/src/pages/EnhancedChatPage.jsx).        *)
(* Each part has its own specification; the variables of the other parts   *)
(* stay unchanged under it.                                                *)
(***************************************************************************)
EXTENDS Integers, Sequences, FiniteSets, TLC

VARIABLES
    \* ---- Transport Channel (EnhancedSocketService fields) ----
    socket,             \* this.socket: 0 (null) or the id of the socket object
    nSocks,             \* number of socket objects created by io() so far
    sockSt,             \* per socket object: state of the socket.io connection
    sockAtt,            \* per socket object: reconnection attempts made (backoff.attempts)
    sockPromise,        \* per socket object: state of the promise connect() returned
    isConnected,        \* this.isConnected
    isConnecting,       \* this.isConnecting
    reconnectAttempts,  \* this.reconnectAttempts
    authToken,          \* this.authToken
    eventListeners,     \* this.eventListeners: event name -> set of callbacks
    messageQueue,       \* this.messageQueue
    storedWebRTCEvents, \* this.storedWebRTCEvents: event name -> sequence of events
    heartbeatInterval,  \* this.heartbeatInterval is set
    waiters,            \* tokens of the connect() calls polling isConnecting
    \* ---- observations of the channel's environment ----
    wire,               \* ids handed to socket.emit, in order
    nextMsg,            \* id of the next emit() call
    queued,             \* ids emit() has appended to messageQueue
    cleared,            \* ids removed from messageQueue by disconnect()/cleanup()
    pings,              \* heartbeat pings transmitted
    nSig,               \* inbound signaling events arrived so far
    sigEvent,           \* per arrived signal: the internal event name it maps to
    delivered,          \* per callback: the signals it was invoked with, in order
    reported,           \* <<event, callback>> pairs of lifecycle events dispatched
    forwardsManagerEvents, \* the Socket object re-emits its Manager's reconnect_* events
    \* ---- Call Session (EnhancedVideoCall / EnhancedAudioCall component) ----
    variant,            \* which component renders the call
    isIncoming,         \* prop isIncoming
    callStatus,         \* state callStatus
    initialized,        \* initializeCall() has got its getCallStatus answer
    accepted,           \* acceptCall() has got its answer
    peerConnection,     \* peerConnectionRef.current: 0 (null) or id of the RTCPeerConnection
    nPeers,             \* RTCPeerConnection objects created so far
    remoteDescription,  \* per RTCPeerConnection: its remoteDescription is set
    localDescription,   \* a local description has been set
    isWebRTCSetup,      \* isWebRTCSetupRef.current
    tasks,              \* offer/answer handler invocations and where they are suspended
    nTasks,             \* number of them so far
    srdCalls,           \* setRemoteDescription calls made so far
    nCand,              \* remote ICE candidates arrived so far
    applied,            \* candidates handed to addIceCandidate, in order
    appliedUnset,       \* those handed over while the remote description was unset
    discarded,          \* candidates dropped without being handed over
    pendingSignals,     \* state pendingSignals[callId]: queued candidates
    pendingKey,         \* pendingSignals has an entry for callId
    listenerSnap,       \* pendingSignals as captured by the registered listeners
    \* ---- Session Registry (EnhancedChatPage state) ----
    activeCall,         \* state activeCall: "none" (null) or its callId
    incomingCall,       \* state incomingCall: "none" (null) or its callId
    pageError,          \* state error
    initiating,         \* callService.initiateCall requests awaiting their answer
    accepting,          \* callId of the acceptCall request awaiting its answer
    listenerActiveCall, \* activeCall as captured by the registered call listeners
    activeStatus,       \* activeCall.status, handed to the call component as prop status
    \* ---- Call Session: life cycle of the mounted call component ----
    connectionState,    \* connectionState of each RTCPeerConnection
    qualityCheckIntervalRef, \* the ref holds the id of a quality-sampling timer
    qualityTimers,      \* quality-sampling timers (setInterval) that are running
    mounted,            \* the component is mounted (its setState calls take effect)
    callError,          \* state error
    localStream,        \* localStreamRef.current is set
    liveStreams,        \* media streams acquired whose tracks have not been stopped
    pcOpen,             \* RTCPeerConnection objects created and not closed
    pcReady,            \* those with onconnectionstatechange installed
    pcLocal,            \* those with a local description
    procs,              \* the async functions of the component and where they are suspended
    offerEvents,        \* webrtc_offer events handed to the component so far
    propStatusSeen,     \* prop status the effect on propStatus last ran with
    offersSent,         \* callService.sendOffer requests made
    answersSent,        \* callService.sendAnswer requests made
    endedBy,            \* "end" / "reject" once endCall / rejectCall has completed
    endedFrom,          \* callStatus at the time that endCall / rejectCall was invoked
    inFlightAtEnd,      \* the functions suspended in a negotiation step at that time
    lateActs,           \* kinds of acts performed after it completed (and unmounted)
    lateContinued,      \* those performed by the functions then suspended
    mediaFailed,        \* getUserMedia has been rejected
    mediaLate,          \* kinds of acts performed after that rejection
    \* ---- Presence (EnhancedChatPage state and its server) ----
    onlineUsers,        \* state onlineUsers: the presence view
    serverOnline,       \* the users the server holds to be online
    presenceInFlight,   \* user_online / user_offline events sent, not yet delivered
    fetchRequests,      \* online-users requests the server has not answered yet
    fetchResponses,     \* answers (snapshots of serverOnline) on their way back
    lastPresence,       \* per user, the last presence event delivered to the page
    nPresence,          \* presence changes so far
    nFetches,           \* online-users requests so far
    \* ---- Typing indicator (message list state) ----
    isTyping,           \* state isTyping
    typingTimeoutRef,   \* "null", or "armed" while the 3 s timeout is pending
    timeoutIsTyping,    \* isTyping as seen by the handleStopTyping the timeout calls
    newMessage,         \* the input is "" or holds "text"
    sending,            \* messageService.sendMessage awaits its answer
    typingOpen,         \* a typing_start was emitted and no typing_stop since
    nInputs,            \* input changes so far
    lastOp,             \* the operation of the last step
    lastArg             \* its argument

chanVars == <<socket, nSocks, sockSt, sockAtt, sockPromise, isConnected, isConnecting,
              reconnectAttempts, authToken, eventListeners, messageQueue,
              storedWebRTCEvents, heartbeatInterval, waiters, wire, nextMsg, queued,
              cleared, pings, nSig, sigEvent, delivered, reported>>

sessVars == <<variant, isIncoming, callStatus, initialized, accepted, peerConnection,
              nPeers, remoteDescription, localDescription, isWebRTCSetup, tasks, nTasks,
              srdCalls, nCand, applied, appliedUnset, discarded, pendingSignals,
              pendingKey, listenerSnap>>

regVars == <<activeCall, incomingCall, pageError, initiating, accepting,
             listenerActiveCall, activeStatus>>

lifeVars == <<mounted, callError, localStream, liveStreams, pcOpen, pcReady, pcLocal,
              procs, offerEvents, propStatusSeen, offersSent, answersSent, endedBy,
              endedFrom, inFlightAtEnd, lateActs, lateContinued, mediaFailed,
              mediaLate, connectionState, qualityCheckIntervalRef, qualityTimers>>

presenceVars == <<onlineUsers, serverOnline, presenceInFlight, fetchRequests,
                  fetchResponses, lastPresence, nPresence, nFetches>>

typingVars == <<isTyping, typingTimeoutRef, timeoutIsTyping, newMessage, sending,
                typingOpen, nInputs>>

chatVars == <<presenceVars, typingVars>>

\* what the operations of each part leave alone
chanFrame == <<forwardsManagerEvents, sessVars, lifeVars, regVars, chatVars>>
sessFrame == <<chanVars, forwardsManagerEvents, lifeVars, regVars, chatVars>>
regFrame == <<chanVars, forwardsManagerEvents, sessVars, lifeVars, chatVars>>
lifeFrame == <<chanVars, forwardsManagerEvents, chatVars>>
presenceFrame == <<chanVars, forwardsManagerEvents, sessVars, lifeVars, regVars, typingVars>>
typingFrame == <<chanVars, forwardsManagerEvents, sessVars, lifeVars, regVars, presenceVars>>

vars == <<chanVars, forwardsManagerEvents, sessVars, lifeVars, regVars, chatVars,
          lastOp, lastArg>>

-----------------------------------------------------------------------------
(* Bounds of the model *)
MaxSockets == 3
MaxSends == 3
MaxSignals == 2
MaxWaiters == 1
MaxPings == 1
MaxPeers == 2
MaxDescriptions == 3
MaxCandidates == 3
MaxInitiates == 2
MaxOfferEvents == 1
MaxTimers == 2
MaxPresenceChanges == 3
MaxFetches == 2
MaxInputs == 4

(* io() options, enhancedSocketService.js:69 *)
ReconnectionAttempts == 3

Tokens == {"t1", "t2"}
Callbacks == {"h1", "h2"}

\* internal names the service dispatches signaling events under
SignalEvents == {"webrtc_offer", "webrtc_answer", "webrtc_ice_candidate"}
\* wire names of inbound signaling events (underscore and colon naming)
WireSignals == {"webrtc_offer", "webrtc_answer", "webrtc_ice_candidate",
                "webrtc:offer", "webrtc:answer", "webrtc:ice-candidate"}
\* lifecycle events the service dispatches to its subscribers
LifeEvents == {"connection_success", "connection_error", "disconnection",
               "reconnection_attempt", "reconnection_success", "reconnection_failed",
               "connection_failed"}
AllEvents == SignalEvents \cup LifeEvents

SockIds == 1..MaxSockets
Live(s) == sockSt[s] \in {"opening", "open", "backoff"}

-----------------------------------------------------------------------------
(* constructor, enhancedSocketService.js:7-21. The handlers of lines       *)
(* 137-172 are registered on the Socket object; socket.io-client re-emits  *)
(* the Manager's reconnect_attempt / reconnect / reconnect_failed events   *)
(* there only in its releases before 3, and the release is not fixed by    *)
(* the source: both behaviours are possible.                               *)
ChanInit ==
    /\ forwardsManagerEvents \in BOOLEAN
    /\ socket = 0
    /\ nSocks = 0
    /\ sockSt = [s \in SockIds |-> "none"]
    /\ sockAtt = [s \in SockIds |-> 0]
    /\ sockPromise = [s \in SockIds |-> "none"]
    /\ isConnected = FALSE
    /\ isConnecting = FALSE
    /\ reconnectAttempts = 0
    /\ authToken = "undefined"
    /\ eventListeners = [e \in AllEvents |-> {}]
    /\ messageQueue = <<>>
    /\ storedWebRTCEvents = [e \in SignalEvents |-> <<>>]
    /\ heartbeatInterval = FALSE
    /\ waiters = <<>>
    /\ wire = <<>>
    /\ nextMsg = 1
    /\ queued = {}
    /\ cleared = {}
    /\ pings = 0
    /\ nSig = 0
    /\ sigEvent = [i \in 1..MaxSignals |-> "none"]
    /\ delivered = [cb \in Callbacks |-> <<>>]
    /\ reported = {}
    /\ lastOp = "init"
    /\ lastArg = "none"

-----------------------------------------------------------------------------
(* emitEvent(event, data) for a lifecycle event: every registered callback *)
(* is invoked; the invocations are recorded in reported.                   *)
emitEvent(listeners, rep, event) ==
    rep \cup {<<event, cb>> : cb \in listeners[event]}

(* emitEvent(event, data) for a signaling event: every registered callback *)
(* is invoked with the signal.                                             *)
emitSignal(listeners, del, event, sig) ==
    [cb \in Callbacks |->
        IF cb \in listeners[event] THEN Append(del[cb], sig) ELSE del[cb]]

(* emit(event, data), enhancedSocketService.js:565-575: the queue after it *)
emitQueue(connected, q, m) ==
    IF ~connected THEN Append(q, m) ELSE q

(* emit(event, data): what has been handed to socket.emit after it *)
emitWire(connected, sock, w, m) ==
    IF connected /\ sock # 0 THEN Append(w, m) ELSE w

(* a flush that sends the newest queued message first *)
RECURSIVE processMessageQueueLifo(_, _, _)
processMessageQueueLifo(q, w, sock) ==
    IF q = <<>> THEN w
    ELSE processMessageQueueLifo(SubSeq(q, 1, Len(q) - 1),
                                 emitWire(TRUE, sock, w, q[Len(q)]), sock)

(* processMessageQueue(), enhancedSocketService.js:580-585, run by the     *)
(* 'connect' handler after isConnected = true: shift and emit until empty  *)
RECURSIVE processMessageQueue(_, _, _)
processMessageQueue(q, w, sock) ==
    IF q = <<>> THEN w
    ELSE processMessageQueue(Tail(q), emitWire(TRUE, sock, w, Head(q)), sock)

(* socket.disconnect() of socket.io on the current socket object: the      *)
(* socket is destroyed; if it was connected its 'disconnect' handler runs  *)
(* synchronously (enhancedSocketService.js:118-135)                        *)
WasOpen == socket # 0 /\ sockSt[socket] = "open"
\* a connect() that leaves the previous socket object connected
SocketLeftOpen == sockSt
SocketClosed == IF socket # 0 THEN [sockSt EXCEPT ![socket] = "closed"] ELSE sockSt
\* closing the socket's manager resets its backoff counter
BackoffReset == IF socket # 0 THEN [sockAtt EXCEPT ![socket] = 0] ELSE sockAtt

(* connect(token), enhancedSocketService.js:28-75 *)
Connect(t) ==
    /\ lastOp' = "connect"
    /\ lastArg' = t
    /\ UNCHANGED chanFrame
    /\ IF isConnecting
       THEN \* lines 30-42: poll isConnecting every 100 ms, resolve when it is false
            /\ Len(waiters) < MaxWaiters
            /\ waiters' = Append(waiters, t)
            /\ UNCHANGED <<socket, nSocks, sockSt, sockAtt, sockPromise, isConnected,
                           isConnecting, reconnectAttempts, authToken, eventListeners,
                           messageQueue, storedWebRTCEvents, heartbeatInterval, wire,
                           nextMsg, queued, cleared, pings, nSig, sigEvent, delivered, reported>>
       ELSE IF isConnected /\ authToken = t
       THEN \* lines 45-48
            UNCHANGED chanVars
       ELSE \* lines 50-74: isConnecting = true; disconnect the existing socket
            \* (its 'disconnect' handler resets isConnected and isConnecting);
            \* store the token; io(...) with autoConnect
            /\ nSocks < MaxSockets
            /\ socket' = nSocks + 1
            /\ nSocks' = nSocks + 1
            /\ sockSt' = [SocketClosed EXCEPT ![nSocks + 1] = "opening"]
            /\ sockAtt' = [BackoffReset EXCEPT ![nSocks + 1] = 0]
            /\ sockPromise' = [sockPromise EXCEPT ![nSocks + 1] = "pending"]
            /\ isConnecting' = ~WasOpen
            /\ isConnected' = (isConnected /\ ~WasOpen)
            /\ reported' = IF WasOpen
                           THEN emitEvent(eventListeners, reported, "disconnection")
                           ELSE reported
            /\ authToken' = t
            /\ UNCHANGED <<reconnectAttempts, eventListeners, messageQueue,
                           storedWebRTCEvents, heartbeatInterval, waiters, wire, nextMsg, queued,
                           cleared, pings, nSig, sigEvent, delivered>>

(* the polling timer of a waiting connect(), lines 33-40 *)
WaiterPoll ==
    /\ ~isConnecting
    /\ \E i \in DOMAIN waiters :
          /\ waiters' = SubSeq(waiters, 1, i - 1) \o SubSeq(waiters, i + 1, Len(waiters))
          /\ lastArg' = waiters[i]
    /\ lastOp' = "waiterResolved"
    /\ UNCHANGED chanFrame
    /\ UNCHANGED <<socket, nSocks, sockSt, sockAtt, sockPromise, isConnected, isConnecting,
                   reconnectAttempts, authToken, eventListeners, messageQueue,
                   storedWebRTCEvents, heartbeatInterval, wire, nextMsg, queued, cleared, pings,
                   nSig, sigEvent, delivered, reported>>

(* socket.io opens socket s: the 'connect' handler, lines 77-98; after a   *)
(* reconnection attempt also the 'reconnect' handler, lines 154-163        *)
OpenSuccess(s) ==
    /\ sockSt[s] = "opening"
    /\ sockSt' = [sockSt EXCEPT ![s] = "open"]
    /\ sockAtt' = [sockAtt EXCEPT ![s] = 0]
    /\ isConnected' = TRUE
    /\ isConnecting' = FALSE
    /\ reconnectAttempts' = 0
    /\ wire' = processMessageQueue(messageQueue, wire, socket)
    /\ messageQueue' = <<>>
    /\ heartbeatInterval' = TRUE
    /\ reported' =
          LET r1 == emitEvent(eventListeners, reported, "connection_success")
          IN  IF sockAtt[s] > 0 /\ forwardsManagerEvents
              THEN emitEvent(eventListeners, r1, "reconnection_success")
              ELSE r1
    /\ sockPromise' = [sockPromise EXCEPT ![s] = IF @ = "pending" THEN "resolved" ELSE @]
    /\ lastOp' = "connectEvent"
    /\ lastArg' = "none"
    /\ UNCHANGED chanFrame
    /\ UNCHANGED <<socket, nSocks, authToken, eventListeners, storedWebRTCEvents, waiters,
                   nextMsg, queued, cleared, pings, nSig, sigEvent, delivered>>

(* the 'reconnect_failed' handler, lines 165-172: what has been reported   *)
OnReconnectFailed(rep) ==
    IF forwardsManagerEvents
    THEN emitEvent(eventListeners, rep, "reconnection_failed")
    ELSE rep

(* an attempt of socket s fails: the 'connect_error' handler, lines        *)
(* 101-115; socket.io then schedules a reconnection attempt, or, after     *)
(* reconnectionAttempts of them, gives up and fires 'reconnect_failed'     *)
OpenFail(s) ==
    /\ sockSt[s] = "opening"
    /\ isConnected' = FALSE
    /\ isConnecting' = FALSE
    /\ sockPromise' = [sockPromise EXCEPT ![s] =
                          IF @ = "pending" /\ reconnectAttempts = 0 THEN "rejected" ELSE @]
    /\ IF sockAtt[s] < ReconnectionAttempts
       THEN /\ sockSt' = [sockSt EXCEPT ![s] = "backoff"]
            /\ reported' = emitEvent(eventListeners, reported, "connection_error")
       ELSE /\ sockSt' = [sockSt EXCEPT ![s] = "failed"]
            /\ reported' = OnReconnectFailed(
                               emitEvent(eventListeners, reported, "connection_error"))
    /\ lastOp' = "connectError"
    /\ lastArg' = "none"
    /\ UNCHANGED chanFrame
    /\ UNCHANGED <<socket, nSocks, sockAtt, reconnectAttempts, authToken, eventListeners,
                   messageQueue, storedWebRTCEvents, heartbeatInterval, waiters, wire,
                   nextMsg, queued, cleared, pings, nSig, sigEvent, delivered>>

(* socket.io starts reconnection attempt sockAtt[s] + 1 of socket s: the   *)
(* 'reconnect_attempt' handler, lines 138-152                              *)
ReconnectAttempt(s) ==
    /\ sockSt[s] = "backoff"
    /\ sockAtt[s] < ReconnectionAttempts
    /\ sockSt' = [sockSt EXCEPT ![s] = "opening"]
    /\ sockAtt' = [sockAtt EXCEPT ![s] = @ + 1]
    /\ reconnectAttempts' = IF forwardsManagerEvents THEN sockAtt[s] + 1
                            ELSE reconnectAttempts
    /\ reported' = IF isConnecting \/ ~forwardsManagerEvents THEN reported
                   ELSE emitEvent(eventListeners, reported, "reconnection_attempt")
    /\ lastOp' = "reconnectAttempt"
    /\ lastArg' = "none"
    /\ UNCHANGED chanFrame
    /\ UNCHANGED <<socket, nSocks, sockPromise, isConnected, isConnecting, authToken,
                   eventListeners, messageQueue, storedWebRTCEvents, heartbeatInterval,
                   waiters, wire, nextMsg, queued, cleared, pings, nSig, sigEvent, delivered>>

(* the connection of socket s is lost: the 'disconnect' handler, lines     *)
(* 118-135. After a transport loss socket.io reconnects by itself; after   *)
(* 'io server disconnect' it does not.                                     *)
Drop(s, reason) ==
    /\ sockSt[s] = "open"
    /\ sockSt' = [sockSt EXCEPT ![s] =
                     IF reason = "transport close" THEN "backoff" ELSE "closed"]
    /\ isConnected' = FALSE
    /\ isConnecting' = FALSE
    /\ reported' = emitEvent(eventListeners, reported, "disconnection")
    /\ lastOp' = "disconnectEvent"
    /\ lastArg' = "none"
    /\ UNCHANGED chanFrame
    /\ UNCHANGED <<socket, nSocks, sockAtt, sockPromise, reconnectAttempts, authToken,
                   eventListeners, messageQueue, storedWebRTCEvents, heartbeatInterval,
                   waiters, wire, nextMsg, queued, cleared, pings, nSig, sigEvent, delivered>>

(* disconnect(), enhancedSocketService.js:189-211 *)
Disconnect ==
    /\ lastOp' = "disconnect"
    /\ lastArg' = "none"
    /\ UNCHANGED chanFrame
    /\ IF socket # 0
       THEN /\ heartbeatInterval' = FALSE
            /\ sockSt' = SocketClosed
            /\ reported' = IF WasOpen
                           THEN emitEvent(eventListeners, reported, "disconnection")
                           ELSE reported
            /\ socket' = 0
            /\ isConnected' = FALSE
            /\ isConnecting' = FALSE
            /\ eventListeners' = [e \in AllEvents |-> {}]
            /\ cleared' = cleared \cup {messageQueue[i] : i \in 1..Len(messageQueue)}
            /\ messageQueue' = <<>>
            /\ reconnectAttempts' = 0
            /\ authToken' = "null"
            /\ sockAtt' = BackoffReset
            /\ UNCHANGED <<nSocks, sockPromise, storedWebRTCEvents, waiters, wire,
                           nextMsg, queued, pings, nSig, sigEvent, delivered>>
       ELSE UNCHANGED chanVars

(* cleanup(), enhancedSocketService.js:833-839: stopHeartbeat, disconnect, *)
(* then the listeners and the queue are cleared whatever disconnect did    *)
Cleanup ==
    /\ lastOp' = "cleanup"
    /\ lastArg' = "none"
    /\ UNCHANGED chanFrame
    /\ heartbeatInterval' = FALSE
    /\ sockSt' = SocketClosed
    /\ reported' = IF WasOpen
                   THEN emitEvent(eventListeners, reported, "disconnection")
                   ELSE reported
    /\ socket' = 0
    /\ isConnected' = (IF socket # 0 THEN FALSE ELSE isConnected)
    /\ isConnecting' = (IF socket # 0 THEN FALSE ELSE isConnecting)
    /\ reconnectAttempts' = (IF socket # 0 THEN 0 ELSE reconnectAttempts)
    /\ authToken' = (IF socket # 0 THEN "null" ELSE authToken)
    /\ eventListeners' = [e \in AllEvents |-> {}]
    /\ cleared' = cleared \cup {messageQueue[i] : i \in 1..Len(messageQueue)}
    /\ messageQueue' = <<>>
    /\ sockAtt' = BackoffReset
    /\ UNCHANGED <<nSocks, sockPromise, storedWebRTCEvents, waiters, wire,
                   nextMsg, queued, pings, nSig, sigEvent, delivered>>

(* a send through emit(event, data), lines 565-575 (sendMessage, joinChat, *)
(* startTyping, sendOffer, ... all end here)                               *)
Emit ==
    /\ nextMsg <= MaxSends
    /\ messageQueue' = emitQueue(isConnected, messageQueue, nextMsg)
    /\ wire' = emitWire(isConnected, socket, wire, nextMsg)
    /\ nextMsg' = nextMsg + 1
    /\ queued' = IF isConnected THEN queued ELSE queued \cup {nextMsg}
    /\ lastOp' = "emit"
    /\ lastArg' = "none"
    /\ UNCHANGED chanFrame
    /\ UNCHANGED <<socket, nSocks, sockSt, sockAtt, sockPromise, isConnected, isConnecting,
                   reconnectAttempts, authToken, eventListeners, storedWebRTCEvents,
                   heartbeatInterval, waiters, cleared, pings, nSig, sigEvent, delivered,
                   reported>>

(* the heartbeat timer fires, lines 813-817: ping() only while connected   *)
HeartbeatTick ==
    /\ heartbeatInterval
    /\ isConnected /\ socket # 0 => pings < MaxPings
    /\ pings' = IF isConnected /\ socket # 0 THEN pings + 1 ELSE pings
    /\ lastOp' = "heartbeat"
    /\ lastArg' = "none"
    /\ UNCHANGED chanFrame
    /\ UNCHANGED <<socket, nSocks, sockSt, sockAtt, sockPromise, isConnected, isConnecting,
                   reconnectAttempts, authToken, eventListeners, messageQueue,
                   storedWebRTCEvents, heartbeatInterval, waiters, wire, nextMsg, queued, cleared,
                   nSig, sigEvent, delivered, reported>>

-----------------------------------------------------------------------------
(* Signal Buffer *)

(* storeWebRTCEvent(eventType, data), lines 533-539 *)
storeWebRTCEvent(stored, eventType, sig) ==
    [stored EXCEPT ![eventType] = Append(@, sig)]

(* a replay that re-emits the newest stored event first *)
RECURSIVE replayStoredLifo(_, _, _, _)
replayStoredLifo(listeners, del, eventType, q) ==
    IF q = <<>> THEN del
    ELSE replayStoredLifo(listeners,
                          emitSignal(listeners, del, eventType, q[Len(q)]),
                          eventType, SubSeq(q, 1, Len(q) - 1))

(* the forEach of processStoredWebRTCEvents, lines 550-553: each stored    *)
(* event is re-emitted, oldest first                                       *)
RECURSIVE replayStored(_, _, _, _)
replayStored(listeners, del, eventType, q) ==
    IF q = <<>> THEN del
    ELSE replayStored(listeners, emitSignal(listeners, del, eventType, Head(q)),
                      eventType, Tail(q))

(* the wire names whose handler stores the event when nobody listens:      *)
(* 'webrtc:offer' (lines 329-333) and 'webrtc:ice-candidate' (371-375)     *)
StoresWhenUnheard(w) == w \in {"webrtc:offer", "webrtc:ice-candidate"}

(* the internal event name a wire event is dispatched under, lines 277-380 *)
Internal(w) ==
    CASE w \in {"webrtc_offer", "webrtc:offer"} -> "webrtc_offer"
      [] w \in {"webrtc_answer", "webrtc:answer"} -> "webrtc_answer"
      [] OTHER -> "webrtc_ice_candidate"

(* an inbound signaling event with wire name w arrives on open socket s:   *)
(* the socket.on(w) handler of setupEventHandlers, lines 277-380           *)
Arrive(s, w) ==
    /\ sockSt[s] = "open"
    /\ nSig < MaxSignals
    /\ nSig' = nSig + 1
    /\ sigEvent' = [sigEvent EXCEPT ![nSig + 1] = Internal(w)]
    /\ storedWebRTCEvents' =
          IF StoresWhenUnheard(w) /\ eventListeners[Internal(w)] = {}
          THEN storeWebRTCEvent(storedWebRTCEvents, Internal(w), nSig + 1)
          ELSE storedWebRTCEvents
    /\ delivered' = emitSignal(eventListeners, delivered, Internal(w), nSig + 1)
    /\ lastOp' = "arrive"
    /\ lastArg' = "none"
    /\ UNCHANGED chanFrame
    /\ UNCHANGED <<socket, nSocks, sockSt, sockAtt, sockPromise, isConnected, isConnecting,
                   reconnectAttempts, authToken, eventListeners, messageQueue,
                   heartbeatInterval, waiters, wire, nextMsg, queued, cleared, pings, reported>>

(* a registration that leaves the Signal Buffer alone *)
OnWithoutReplay(e, cb) ==
    /\ eventListeners' = [eventListeners EXCEPT ![e] = @ \cup {cb}]
    /\ lastOp' = "on"
    /\ lastArg' = "none"
    /\ UNCHANGED chanFrame
    /\ UNCHANGED <<socket, nSocks, sockSt, sockAtt, sockPromise, isConnected, isConnecting,
                   reconnectAttempts, authToken, messageQueue, storedWebRTCEvents,
                   heartbeatInterval, waiters, wire, nextMsg, queued, cleared, pings, nSig,
                   sigEvent, delivered, reported>>

(* on(event, callback), lines 469-488: register, then for a webrtc event   *)
(* processStoredWebRTCEvents(event), lines 545-558                         *)
On(e, cb) ==
    /\ eventListeners' = [eventListeners EXCEPT ![e] = @ \cup {cb}]
    /\ IF e \in SignalEvents
       THEN /\ delivered' = replayStored(eventListeners', delivered, e,
                                         storedWebRTCEvents[e])
            /\ storedWebRTCEvents' = [storedWebRTCEvents EXCEPT ![e] = <<>>]
       ELSE UNCHANGED <<delivered, storedWebRTCEvents>>
    /\ lastOp' = "on"
    /\ lastArg' = IF e \in SignalEvents /\ storedWebRTCEvents[e] # <<>>
                  THEN "replayed" ELSE "none"
    /\ UNCHANGED chanFrame
    /\ UNCHANGED <<socket, nSocks, sockSt, sockAtt, sockPromise, isConnected, isConnecting,
                   reconnectAttempts, authToken, messageQueue, heartbeatInterval, waiters,
                   wire, nextMsg, queued, cleared, pings, nSig, sigEvent, reported>>

(* off(event, callback), lines 495-508 *)
Off(e, cb) ==
    /\ cb \in eventListeners[e]
    /\ eventListeners' = [eventListeners EXCEPT ![e] = @ \ {cb}]
    /\ lastOp' = "off"
    /\ lastArg' = "none"
    /\ UNCHANGED chanFrame
    /\ UNCHANGED <<socket, nSocks, sockSt, sockAtt, sockPromise, isConnected, isConnecting,
                   reconnectAttempts, authToken, messageQueue, storedWebRTCEvents,
                   heartbeatInterval, waiters, wire, nextMsg, queued, cleared, pings, nSig,
                   sigEvent, delivered, reported>>

-----------------------------------------------------------------------------
(* Call Session: one mounted call component for one callId. Three          *)
(* components render a call: EnhancedVideoCall.jsx ("video"), the video    *)
(* component of unnamed/part_003 ("videoAlt") and the audio component of   *)
(* unnamed/part_005 ("audio"). All signaling events carry the session's    *)
(* callId, so the handlers' callId test passes.                            *)

Variants == {"video", "videoAlt", "audio"}
TaskIds == 1..MaxDescriptions
PeerIds == 1..MaxPeers
NoTask == [st |-> "none", kind |-> "none", pc |-> 0, snap |-> <<>>]

(* the component's state at mount, EnhancedVideoCall.jsx:37-67 *)
SessInit(v, inc) ==
    /\ variant = v
    /\ isIncoming = inc
    /\ callStatus = (IF inc THEN "incoming" ELSE "initiating")
    /\ initialized = FALSE
    /\ accepted = FALSE
    /\ peerConnection = 0
    /\ nPeers = 0
    /\ remoteDescription = [p \in PeerIds |-> FALSE]
    /\ localDescription = FALSE
    /\ isWebRTCSetup = FALSE
    /\ tasks = [t \in TaskIds |-> NoTask]
    /\ nTasks = 0
    /\ srdCalls = 0
    /\ nCand = 0
    /\ applied = <<>>
    /\ appliedUnset = {}
    /\ discarded = {}
    /\ pendingSignals = <<>>
    /\ pendingKey = FALSE
    /\ listenerSnap = <<>>

(* handleIncomingOffer(offer, callId) up to its first suspension, entered  *)
(* with peerConnectionRef.current = pc and a closure that sees snap as     *)
(* pendingSignals: EnhancedVideoCall.jsx:458-472 applies the offer         *)
(* unconditionally; part_003:429-450 and part_005:498-519 return when      *)
(* pc.remoteDescription is already set                                     *)
OfferTask(pc, snap) ==
    IF pc = 0
    THEN [st |-> "setup", kind |-> "offer", pc |-> 0, snap |-> snap]
    ELSE IF variant # "video" /\ remoteDescription[pc]
    THEN NoTask
    ELSE [st |-> "srd", kind |-> "offer", pc |-> pc, snap |-> snap]

(* the handler invocation is now suspended as task *)
Launch(task) ==
    /\ tasks' = IF task.st = "none" THEN tasks ELSE [tasks EXCEPT ![nTasks + 1] = task]
    /\ nTasks' = IF task.st = "none" THEN nTasks ELSE nTasks + 1
    /\ srdCalls' = IF task.st = "srd" THEN srdCalls + 1 ELSE srdCalls

(* initializeCall() once getCallStatus has answered with status (and with  *)
(* or without a stored offer), EnhancedVideoCall.jsx:286-301: setupWebRTC  *)
(* (lines 310-415 always make a new RTCPeerConnection; part_003:283-298    *)
(* and part_005:292-300 keep a connection that is already set up), then    *)
(* createOffer for the caller or handleIncomingOffer for the callee. The   *)
(* closure of initializeCall is the one of the mount: it sees no pending   *)
(* signals.                                                                *)
InitializeCall(status, hasOffer) ==
    LET webrtc == status \in {"ringing", "connected"}
        keep == variant # "video" /\ isWebRTCSetup /\ peerConnection # 0
        fresh == webrtc /\ ~keep
        pc == IF fresh THEN nPeers + 1 ELSE peerConnection
        task == IF status = "ringing" /\ isIncoming /\ hasOffer
                THEN OfferTask(pc, <<>>) ELSE NoTask
    IN  /\ ~initialized
        /\ nTasks < MaxDescriptions
        /\ fresh => nPeers < MaxPeers
        /\ initialized' = TRUE
        /\ callStatus' = status
        /\ peerConnection' = pc
        /\ nPeers' = IF fresh THEN nPeers + 1 ELSE nPeers
        /\ isWebRTCSetup' = (isWebRTCSetup \/ webrtc)
        /\ localDescription' = (localDescription \/ (status = "ringing" /\ ~isIncoming))
        /\ listenerSnap' = IF status # callStatus THEN pendingSignals ELSE listenerSnap
        /\ Launch(task)
        /\ lastOp' = "initializeCall"
        /\ lastArg' = status
        /\ UNCHANGED sessFrame
        /\ UNCHANGED <<variant, isIncoming, accepted, remoteDescription, nCand, applied,
                       appliedUnset, discarded, pendingSignals, pendingKey>>

(* acceptCall() once callService.acceptCall has answered with success,     *)
(* EnhancedVideoCall.jsx:545-551: status connected (the listeners are      *)
(* registered anew, lines 124-235), then the offer of incomingCallData     *)
AcceptCall(hasOffer) ==
    LET task == IF hasOffer THEN OfferTask(peerConnection, pendingSignals) ELSE NoTask
    IN  /\ isIncoming
        /\ ~accepted
        /\ callStatus \in {"incoming", "ringing"}
        /\ nTasks < MaxDescriptions
        /\ task.st = "setup" => nPeers < MaxPeers
        /\ accepted' = TRUE
        /\ callStatus' = "connected"
        /\ listenerSnap' = pendingSignals
        /\ peerConnection' = IF task.st = "setup" THEN nPeers + 1 ELSE peerConnection
        /\ nPeers' = IF task.st = "setup" THEN nPeers + 1 ELSE nPeers
        /\ Launch(task)
        /\ lastOp' = "acceptCall"
        /\ lastArg' = "none"
        /\ UNCHANGED sessFrame
        /\ UNCHANGED <<variant, isIncoming, initialized, remoteDescription,
                       localDescription, isWebRTCSetup, nCand, applied, appliedUnset,
                       discarded, pendingSignals, pendingKey>>

(* a webrtc_offer event of the transport: handleIncomingOfferEvent,        *)
(* EnhancedVideoCall.jsx:134-148, part_003:141-149, part_005:128-142       *)
OfferArrives ==
    LET task == OfferTask(peerConnection, listenerSnap)
    IN  /\ nTasks < MaxDescriptions
        /\ task.st = "setup" => nPeers < MaxPeers
        /\ peerConnection' = IF task.st = "setup" THEN nPeers + 1 ELSE peerConnection
        /\ nPeers' = IF task.st = "setup" THEN nPeers + 1 ELSE nPeers
        /\ Launch(task)
        /\ lastOp' = "webrtc_offer"
        /\ lastArg' = "none"
        /\ UNCHANGED sessFrame
        /\ UNCHANGED <<variant, isIncoming, callStatus, initialized, accepted,
                       remoteDescription, localDescription, isWebRTCSetup, nCand, applied,
                       appliedUnset, discarded, pendingSignals, pendingKey,
                       listenerSnap>>

(* handleIncomingOffer resumes after await setupWebRTC(callId),            *)
(* EnhancedVideoCall.jsx:469-472, part_003:435-450, part_005:504-519       *)
OfferProceed(t) ==
    /\ tasks[t].st = "setup"
    /\ peerConnection # 0
    /\ isWebRTCSetup' = TRUE
    /\ IF variant # "video" /\ remoteDescription[peerConnection]
       THEN /\ tasks' = [tasks EXCEPT ![t].st = "done"]
            /\ UNCHANGED srdCalls
       ELSE /\ tasks' = [tasks EXCEPT ![t].st = "srd", ![t].pc = peerConnection]
            /\ srdCalls' = srdCalls + 1
    /\ lastOp' = "handleIncomingOffer"
    /\ lastArg' = "none"
    /\ UNCHANGED sessFrame
    /\ UNCHANGED <<variant, isIncoming, callStatus, initialized, accepted, peerConnection,
                   nPeers, remoteDescription, localDescription, nTasks, nCand, applied,
                   appliedUnset, discarded, pendingSignals, pendingKey, listenerSnap>>

(* a webrtc_answer event of the transport: handleIncomingAnswer,           *)
(* EnhancedVideoCall.jsx:150-175, part_003:475-496, part_005:144-165       *)
AnswerArrives ==
    /\ nTasks < MaxDescriptions
    /\ Launch(IF peerConnection # 0 /\ ~remoteDescription[peerConnection]
              THEN [st |-> "srd", kind |-> "answer", pc |-> peerConnection,
                    snap |-> listenerSnap]
              ELSE NoTask)
    /\ lastOp' = "webrtc_answer"
    /\ lastArg' = "none"
    /\ UNCHANGED sessFrame
    /\ UNCHANGED <<variant, isIncoming, callStatus, initialized, accepted, peerConnection,
                   nPeers, remoteDescription, localDescription, isWebRTCSetup, nCand,
                   applied, appliedUnset, discarded, pendingSignals, pendingKey,
                   listenerSnap>>

(* processQueuedIceCandidates(callId), EnhancedVideoCall.jsx:514-533, run  *)
(* by a closure that sees snap as pendingSignals: what has been handed to  *)
(* addIceCandidate after it                                                *)
processQueuedIceCandidates(app, snap) ==
    IF peerConnection # 0 THEN app \o snap ELSE app

(* a setRemoteDescription call completes. In EnhancedVideoCall.jsx the     *)
(* continuation runs processQueuedIceCandidates (lines 160-163, 472-476),  *)
(* whose setPendingSignals filters every candidate out of the queue; the   *)
(* offer handler then creates, sets and sends the answer (lines 479-491)   *)
SrdComplete(t) ==
    LET drains == variant = "video" /\ tasks[t].snap # <<>>
        app == IF variant = "video"
               THEN processQueuedIceCandidates(applied, tasks[t].snap)
               ELSE applied
        rd == [remoteDescription EXCEPT ![tasks[t].pc] = TRUE]
    IN  /\ tasks[t].st = "srd"
        /\ remoteDescription' = rd
        /\ tasks' = [tasks EXCEPT ![t].st = "done"]
        /\ localDescription' = (localDescription \/ tasks[t].kind = "offer")
        /\ applied' = app
        /\ appliedUnset' =
              IF drains /\ peerConnection # 0 /\ ~rd[peerConnection]
              THEN appliedUnset \cup {tasks[t].snap[i] : i \in DOMAIN tasks[t].snap}
              ELSE appliedUnset
        /\ pendingSignals' = IF drains THEN <<>> ELSE pendingSignals
        /\ pendingKey' = (pendingKey \/ drains)
        /\ discarded' =
              IF drains
              THEN discarded \cup ({pendingSignals[i] : i \in DOMAIN pendingSignals}
                                   \ {app[i] : i \in DOMAIN app})
              ELSE discarded
        /\ lastOp' = "setRemoteDescription"
        /\ lastArg' = "none"
        /\ UNCHANGED sessFrame
        /\ UNCHANGED <<variant, isIncoming, callStatus, initialized, accepted,
                       peerConnection, nPeers, isWebRTCSetup, nTasks, srdCalls, nCand,
                       listenerSnap>>

(* a webrtc_ice_candidate event of the transport:                          *)
(* handleIncomingIceCandidate. EnhancedVideoCall.jsx:177-208 adds it when  *)
(* the remote description is set and queues it otherwise; part_003:505-519 *)
(* and part_005:167-183 add it whenever a peer connection exists. Without  *)
(* a peer connection the candidate is dropped.                             *)
CandidateArrives ==
    LET c == nCand + 1
        direct == peerConnection # 0 /\
                  (variant # "video" \/ remoteDescription[peerConnection])
        queues == peerConnection # 0 /\ ~direct
    IN  /\ nCand < MaxCandidates
        /\ nCand' = c
        /\ applied' = IF direct THEN Append(applied, c) ELSE applied
        /\ appliedUnset' = IF direct /\ ~remoteDescription[peerConnection]
                           THEN appliedUnset \cup {c} ELSE appliedUnset
        /\ pendingSignals' = IF queues THEN Append(pendingSignals, c) ELSE pendingSignals
        /\ pendingKey' = (pendingKey \/ queues)
        /\ discarded' = IF peerConnection = 0 THEN discarded \cup {c} ELSE discarded
        /\ lastOp' = "webrtc_ice_candidate"
        /\ lastArg' = "none"
        /\ UNCHANGED sessFrame
        /\ UNCHANGED <<variant, isIncoming, callStatus, initialized, accepted,
                       peerConnection, nPeers, remoteDescription, localDescription,
                       isWebRTCSetup, tasks, nTasks, srdCalls, listenerSnap>>

(* the effect on pendingSignals, EnhancedVideoCall.jsx:238-266, which runs *)
(* whenever pendingSignals is a new object: a queued candidate is added    *)
(* when the remote description is set and skipped otherwise; then          *)
(* pendingSignals[callId] becomes a new empty array, which makes the       *)
(* effect due again. (The other two components queue nothing for the       *)
(* session's own callId.)                                                  *)
DrainEffect ==
    LET adds == peerConnection # 0 /\ remoteDescription[peerConnection]
    IN  /\ variant = "video"
        /\ pendingKey
        /\ applied' = IF adds THEN applied \o pendingSignals ELSE applied
        /\ discarded' =
              IF adds THEN discarded
              ELSE discarded \cup {pendingSignals[i] : i \in DOMAIN pendingSignals}
        /\ pendingSignals' = <<>>
        /\ lastOp' = "drainEffect"
        /\ lastArg' = "none"
        /\ UNCHANGED sessFrame
        /\ UNCHANGED <<variant, isIncoming, callStatus, initialized, accepted,
                       peerConnection, nPeers, remoteDescription, localDescription,
                       isWebRTCSetup, tasks, nTasks, srdCalls, nCand, appliedUnset,
                       pendingKey, listenerSnap>>

-----------------------------------------------------------------------------
(* Presence: onlineUsers of EnhancedChatPage.jsx, the online-users request *)
(* and the presence events of the server                                   *)

Users == {"u1", "u2"}

(* useState(new Set()), EnhancedChatPage.jsx:31; nobody is online yet *)
PresenceInit ==
    /\ onlineUsers = {}
    /\ serverOnline = {}
    /\ presenceInFlight = <<>>
    /\ fetchRequests = 0
    /\ fetchResponses = {}
    /\ lastPresence = [u \in Users |-> "none"]
    /\ nPresence = 0
    /\ nFetches = 0

(* fetchInitialOnlineUsers up to its await, lines 52-62: called when the   *)
(* listeners are set up on a connected channel (137-140) and on every      *)
(* connection_success (115-119)                                            *)
FetchInitialOnlineUsers ==
    /\ nFetches < MaxFetches
    /\ nFetches' = nFetches + 1
    /\ fetchRequests' = fetchRequests + 1
    /\ lastOp' = "fetchInitialOnlineUsers"
    /\ lastArg' = "none"
    /\ UNCHANGED presenceFrame
    /\ UNCHANGED <<onlineUsers, serverOnline, presenceInFlight, fetchResponses,
                   lastPresence, nPresence>>

(* the server answers GET /user/status/online with the users online at     *)
(* that moment, or the request fails (the catch of lines 71-78 logs it)    *)
ServerAnswersFetch(ok) ==
    /\ fetchRequests > 0
    /\ fetchRequests' = fetchRequests - 1
    /\ fetchResponses' = IF ok THEN fetchResponses \cup {serverOnline}
                               ELSE fetchResponses
    /\ lastOp' = "serverAnswersFetch"
    /\ lastArg' = "none"
    /\ UNCHANGED presenceFrame
    /\ UNCHANGED <<onlineUsers, serverOnline, presenceInFlight, lastPresence,
                   nPresence, nFetches>>

(* the answer arrives: fetchInitialOnlineUsers after its await, lines      *)
(* 66-70: setOnlineUsers(new Set(onlineUserIds))                           *)
FetchAnswered(snapshot) ==
    /\ snapshot \in fetchResponses
    /\ fetchResponses' = fetchResponses \ {snapshot}
    /\ onlineUsers' = snapshot
    /\ lastOp' = "fetchAnswered"
    /\ lastArg' = "none"
    /\ UNCHANGED presenceFrame
    /\ UNCHANGED <<serverOnline, presenceInFlight, fetchRequests, lastPresence,
                   nPresence, nFetches>>

(* user u connects to or disconnects from the server, which sends          *)
(* user_online / user_offline to the page over the socket                  *)
PresenceChange(u) ==
    /\ nPresence < MaxPresenceChanges
    /\ nPresence' = nPresence + 1
    /\ serverOnline' = IF u \in serverOnline THEN serverOnline \ {u}
                                              ELSE serverOnline \cup {u}
    /\ presenceInFlight' =
          Append(presenceInFlight,
                 <<IF u \in serverOnline THEN "user_offline" ELSE "user_online", u>>)
    /\ lastOp' = "presenceChange"
    /\ lastArg' = u
    /\ UNCHANGED presenceFrame
    /\ UNCHANGED <<onlineUsers, fetchRequests, fetchResponses, lastPresence, nFetches>>

(* the next presence event is delivered: handleUserOnline (lines 93-102)   *)
(* or handleUserOffline (104-113)                                          *)
HandleUserPresence ==
    /\ presenceInFlight # <<>>
    /\ LET event == Head(presenceInFlight)[1]
           u == Head(presenceInFlight)[2]
       IN /\ onlineUsers' = IF event = "user_online" THEN onlineUsers \cup {u}
                                                     ELSE onlineUsers \ {u}
          /\ lastPresence' = [lastPresence EXCEPT ![u] = event]
          /\ lastOp' = event
          /\ lastArg' = u
    /\ presenceInFlight' = Tail(presenceInFlight)
    /\ UNCHANGED presenceFrame
    /\ UNCHANGED <<serverOnline, fetchRequests, fetchResponses, nPresence, nFetches>>

PresenceNext ==
    \/ FetchInitialOnlineUsers
    \/ \E ok \in BOOLEAN : ServerAnswersFetch(ok)
    \/ \E snapshot \in SUBSET Users : FetchAnswered(snapshot)
    \/ \E u \in Users : PresenceChange(u)
    \/ HandleUserPresence

-----------------------------------------------------------------------------
(* Typing indicator: the message input of the message list, part_001 *)

(* useState(false) and useRef(null), part_001:50-51 *)
TypingInit ==
    /\ isTyping = FALSE
    /\ typingTimeoutRef = "null"
    /\ timeoutIsTyping = FALSE
    /\ newMessage = ""
    /\ sending = FALSE
    /\ typingOpen = FALSE
    /\ nInputs = 0

(* the typing part of the page as one value the handlers transform *)
Typing ==
    [typing |-> isTyping, ref |-> typingTimeoutRef, sees |-> timeoutIsTyping,
     open |-> typingOpen]

(* handleStartTyping of a render that saw isTyping = seen, lines 324-333;  *)
(* startTyping emits typing_start (enhancedSocketService.js:625-628)       *)
handleStartTyping(T, seen) ==
    IF ~seen THEN [T EXCEPT !.typing = TRUE, !.open = TRUE] ELSE T

(* handleStopTyping of a render that saw isTyping = seen, lines 335-350;   *)
(* stopTyping emits typing_stop (enhancedSocketService.js:634-637)         *)
handleStopTyping(T, seen) ==
    [(IF seen THEN [T EXCEPT !.typing = FALSE, !.open = FALSE] ELSE T)
        EXCEPT !.ref = "null"]

(* handleTypingTimeout of a render that saw isTyping = seen, lines         *)
(* 352-361: the timeout will call that render's handleStopTyping           *)
handleTypingTimeout(T, seen) ==
    [T EXCEPT !.ref = "armed", !.sees = seen]

TypingCommit(T) ==
    /\ isTyping' = T.typing
    /\ typingTimeoutRef' = T.ref
    /\ timeoutIsTyping' = T.sees
    /\ typingOpen' = T.open

(* the input changes to value: handleMessageInputChange of the current     *)
(* render, lines 363-376                                                   *)
HandleMessageInputChange(value) ==
    /\ nInputs < MaxInputs
    /\ nInputs' = nInputs + 1
    /\ newMessage' = value
    /\ IF value # ""
       THEN TypingCommit(handleTypingTimeout(handleStartTyping(Typing, isTyping),
                                             isTyping))
       ELSE TypingCommit(handleStopTyping(Typing, isTyping))
    /\ lastOp' = "inputChange"
    /\ lastArg' = value
    /\ UNCHANGED sending
    /\ UNCHANGED typingFrame

(* 3 s have passed since the timeout was set, lines 358-360 *)
TypingTimeoutFires ==
    /\ typingTimeoutRef = "armed"
    /\ TypingCommit(handleStopTyping(Typing, timeoutIsTyping))
    /\ lastOp' = "typingTimeout"
    /\ lastArg' = "none"
    /\ UNCHANGED <<newMessage, sending, nInputs>>
    /\ UNCHANGED typingFrame

(* the message is submitted: handleSendMessage of the current render up to *)
(* its await, lines 293-307                                                *)
HandleSendMessage ==
    /\ newMessage # ""
    /\ ~sending
    /\ TypingCommit(handleStopTyping(Typing, isTyping))
    /\ sending' = TRUE
    /\ lastOp' = "sendMessage"
    /\ lastArg' = "none"
    /\ UNCHANGED <<newMessage, nInputs>>
    /\ UNCHANGED typingFrame

(* messageService.sendMessage answers, lines 309-320 *)
SendMessageAnswered(ok) ==
    /\ sending
    /\ sending' = FALSE
    /\ newMessage' = IF ok THEN "" ELSE newMessage
    /\ lastOp' = "sendMessageAnswered"
    /\ lastArg' = "none"
    /\ UNCHANGED <<isTyping, typingTimeoutRef, timeoutIsTyping, typingOpen, nInputs>>
    /\ UNCHANGED typingFrame

TypingNext ==
    \/ \E value \in {"", "text"} : HandleMessageInputChange(value)
    \/ TypingTimeoutFires
    \/ HandleSendMessage
    \/ \E ok \in BOOLEAN : SendMessageAnswered(ok)

ChatInit == PresenceInit /\ TypingInit

-----------------------------------------------------------------------------
(* Session Registry: the call state of EnhancedChatPage.jsx *)

CallIds == {"c1", "c2"}
AlreadyActive == "Another call is already active"

(* useState(null) of activeCall and incomingCall, lines 27-29; the call    *)
(* listeners are registered once per user (effect of lines 82-155) and     *)
(* keep the handlers of that render                                        *)
RegInit ==
    /\ activeCall = "none"
    /\ incomingCall = "none"
    /\ pageError = "none"
    /\ initiating = 0
    /\ accepting = "none"
    /\ listenerActiveCall = "none"
    /\ activeStatus = "null"

(* handleCallInitiate(chat, type) up to its await, lines 200-206 *)
HandleCallInitiate ==
    /\ IF activeCall # "none"
       THEN /\ pageError' = AlreadyActive
            /\ UNCHANGED initiating
       ELSE /\ initiating < MaxInitiates
            /\ initiating' = initiating + 1
            /\ UNCHANGED pageError
    /\ lastOp' = "handleCallInitiate"
    /\ lastArg' = "none"
    /\ UNCHANGED regFrame
    /\ UNCHANGED <<activeCall, incomingCall, accepting, listenerActiveCall, activeStatus>>

(* callService.initiateCall answers: lines 208-221; the new activeCall     *)
(* carries the status of the answer                                        *)
InitiateAnswered(ok, c) ==
    /\ initiating > 0
    /\ ok => c \notin {activeCall, incomingCall}
    /\ initiating' = initiating - 1
    /\ activeCall' = IF ok THEN c ELSE activeCall
    /\ activeStatus' = IF ok THEN "initiating" ELSE activeStatus
    /\ pageError' = IF ok THEN pageError ELSE "Failed to initiate call"
    /\ lastOp' = "initiateAnswered"
    /\ lastArg' = IF ok THEN c ELSE "none"
    /\ UNCHANGED regFrame
    /\ UNCHANGED <<incomingCall, accepting, listenerActiveCall>>

(* a call_incoming event: the handleIncomingCall the listeners hold,       *)
(* lines 229-243, with the activeCall of the render they were made in      *)
HandleIncomingCall(c) ==
    /\ IF listenerActiveCall # "none" /\ listenerActiveCall = c
       THEN /\ UNCHANGED incomingCall
            /\ activeStatus' = "connected"
       ELSE /\ incomingCall' = c
            /\ UNCHANGED activeStatus
    /\ lastOp' = "handleIncomingCall"
    /\ lastArg' = c
    /\ UNCHANGED regFrame
    /\ UNCHANGED <<activeCall, pageError, initiating, accepting, listenerActiveCall>>

(* a call_accepted event: handleCallAccepted, lines 245-279 *)
HandleCallAccepted(c) ==
    /\ incomingCall' = "none"
    /\ activeCall' = c
    /\ activeStatus' = "connected"
    /\ pageError' = "none"
    /\ lastOp' = "handleCallAccepted"
    /\ lastArg' = c
    /\ UNCHANGED regFrame
    /\ UNCHANGED <<initiating, accepting, listenerActiveCall>>

(* call_rejected, call_ended and call_error events, lines 281-299, and     *)
(* onCallEnd of the call component, lines 224-227                          *)
HandleCallOver(kind) ==
    /\ incomingCall' = "none"
    /\ activeCall' = "none"
    /\ activeStatus' = "null"
    /\ pageError' = CASE kind = "call_rejected" -> "Call was rejected"
                      [] kind = "call_error" -> "Call error occurred"
                      [] OTHER -> pageError
    /\ lastOp' = kind
    /\ lastArg' = "none"
    /\ UNCHANGED regFrame
    /\ UNCHANGED <<initiating, accepting, listenerActiveCall>>

(* the incoming-call notification is rendered, line 540 *)
NotificationShown == incomingCall # "none" /\ activeCall = "none"

(* Accept pressed: handleAcceptIncomingCall up to its await, lines 301-316 *)
HandleAcceptIncomingCall ==
    /\ NotificationShown
    /\ accepting = "none"
    /\ accepting' = incomingCall
    /\ lastOp' = "handleAcceptIncomingCall"
    /\ lastArg' = incomingCall
    /\ UNCHANGED regFrame
    /\ UNCHANGED <<activeCall, incomingCall, pageError, initiating, listenerActiveCall,
                   activeStatus>>

(* callService.acceptCall answers: lines 318-347 *)
AcceptAnswered(ok) ==
    /\ accepting # "none"
    /\ accepting' = "none"
    /\ activeCall' = IF ok THEN accepting ELSE activeCall
    /\ activeStatus' = IF ok THEN "connected" ELSE activeStatus
    /\ incomingCall' = "none"
    /\ pageError' = IF ok THEN pageError ELSE "Failed to accept call"
    /\ lastOp' = "acceptAnswered"
    /\ lastArg' = "none"
    /\ UNCHANGED regFrame
    /\ UNCHANGED <<initiating, listenerActiveCall>>

(* Decline pressed: handleRejectIncomingCall, lines 351-361 *)
HandleRejectIncomingCall ==
    /\ NotificationShown
    /\ incomingCall' = "none"
    /\ lastOp' = "handleRejectIncomingCall"
    /\ lastArg' = "none"
    /\ UNCHANGED regFrame
    /\ UNCHANGED <<activeCall, pageError, initiating, accepting, listenerActiveCall,
                   activeStatus>>

(* the user changes: the effect of lines 82-155 runs again and registers   *)
(* the handlers of the current render                                      *)
ListenersSetup ==
    /\ listenerActiveCall # activeCall
    /\ listenerActiveCall' = activeCall
    /\ lastOp' = "listenersSetup"
    /\ lastArg' = "none"
    /\ UNCHANGED regFrame
    /\ UNCHANGED <<activeCall, incomingCall, pageError, initiating, accepting,
                   activeStatus>>

-----------------------------------------------------------------------------
(* Call Session, life cycle: the mounted call component from its mount to  *)
(* its unmount, with every async function of the component as a process    *)
(* suspended at its awaits. An awaited operation of an RTCPeerConnection   *)
(* that is closed meanwhile is rejected or never settles.                  *)

ProcIds == {"init", "accept", "end", "reject", "offer", "answer"}
Idle == [at |-> "idle", pc |-> 0, then |-> "none"]
Done == [at |-> "done", pc |-> 0, then |-> "none"]
(* the functions suspended in a negotiation step: the media setup, an     *)
(* operation of the RTCPeerConnection or a signaling send                  *)
NegotiationSteps ==
    {"getUserMedia", "createOffer", "setLocalDescription", "setRemoteDescription",
     "createAnswer", "setLocalAnswer", "sendOffer", "sendAnswer"}
InFlight(ps) == {p \in ProcIds : ps[p].at \in NegotiationSteps}

(* status values callService.getCallStatus answers with *)
StatusAnswers == {"initiating", "ringing", "connected", "ended"}
(* answers of callService.acceptCall *)
AcceptAnswers == {"ok", "not in ringing state", "error"}

(* refs and state before the mount effects, EnhancedVideoCall.jsx:37-67 *)
LifeInit ==
    /\ mounted = FALSE
    /\ callError = "none"
    /\ localStream = FALSE
    /\ liveStreams = 0
    /\ pcOpen = {}
    /\ pcReady = {}
    /\ pcLocal = {}
    /\ procs = [p \in ProcIds |-> Idle]
    /\ offerEvents = 0
    /\ propStatusSeen = "null"
    /\ offersSent = 0
    /\ answersSent = 0
    /\ endedBy = "none"
    /\ endedFrom = "none"
    /\ inFlightAtEnd = {}
    /\ lateActs = {}
    /\ lateContinued = {}
    /\ mediaFailed = FALSE
    /\ mediaLate = {}
    /\ connectionState = [p \in PeerIds |-> "new"]
    /\ qualityCheckIntervalRef = FALSE
    /\ qualityTimers = 0

(* the component's refs and state, as one value the code fragments below   *)
(* transform; acts collects what the step does                             *)
Cur ==
    [st |-> callStatus, err |-> callError, mt |-> mounted, ref |-> peerConnection,
     np |-> nPeers, open |-> pcOpen, ready |-> pcReady, loc |-> pcLocal,
     rd |-> remoteDescription, stream |-> localStream, live |-> liveStreams,
     setup |-> isWebRTCSetup, srd |-> srdCalls, sentOffers |-> offersSent,
     sentAnswers |-> answersSent, procs |-> procs, init |-> initialized,
     acc |-> accepted, mf |-> mediaFailed, qref |-> qualityCheckIntervalRef,
     qt |-> qualityTimers, cs |-> connectionState, acts |-> {}, macts |-> {}]

(* what an act is to the call: a connection, an offer or an answer        *)
(* created, a description applied, a signaling message sent, the media     *)
(* requested, the status or the error changed                              *)
Kind(a) ==
    CASE a = "RTCPeerConnection" -> "connection"
      [] a = "getUserMedia" -> "media"
      [] a \in {"createOffer", "createAnswer"} -> "created"
      [] a \in {"sendOffer", "sendAnswer"} -> "sent"
      [] a \in {"status", "error"} -> a
      [] OTHER -> "applied"

Act(S, p, a) ==
    [S EXCEPT !.acts = @ \cup {<<p, Kind(a)>>},
              !.macts = IF S.mf THEN @ \cup {Kind(a)} ELSE @]

(* setCallStatus / setError: no effect once the component is unmounted *)
SetStatus(S, p, v) ==
    IF S.mt /\ S.st # v THEN Act([S EXCEPT !.st = v], p, "status") ELSE S

SetError(S, p, m) ==
    IF S.mt /\ S.err # m THEN Act([S EXCEPT !.err = m], p, "error") ELSE S

Finish(S, p) == [S EXCEPT !.procs[p] = Done]

(* the catch blocks: setError(...); setCallStatus('failed') *)
Fail(S, p, m) == Finish(SetStatus(SetError(S, p, m), p, "failed"), p)

(* p awaits operation at of the current RTCPeerConnection *)
Suspend(S, p, at) ==
    Act([S EXCEPT !.procs[p] = [at |-> at, pc |-> S.ref, then |-> "none"]], p, at)

(* startQualityMonitoring(), EnhancedVideoCall.jsx:734-769: setInterval,   *)
(* its id stored in qualityCheckIntervalRef                                *)
startQualityMonitoring(S) ==
    [S EXCEPT !.qt = @ + 1, !.qref = TRUE]

(* cleanup(), EnhancedVideoCall.jsx:771-811; clearInterval stops the timer *)
(* the ref holds                                                           *)
cleanup(S) ==
    [S EXCEPT !.live = IF S.stream THEN @ - 1 ELSE @,
              !.stream = FALSE,
              !.open = @ \ {S.ref},
              !.ref = 0,
              !.setup = FALSE,
              !.qt = IF S.qref THEN @ - 1 ELSE @,
              !.qref = FALSE]

(* handleIncomingOffer from its remote-description test on, lines 471-491 *)
(* up to the await of setRemoteDescription                                 *)
offerNegotiation(S, p) ==
    IF S.ref = 0 THEN Fail(S, p, "Failed to handle incoming offer")
    ELSE IF variant # "video" /\ S.rd[S.ref] THEN Finish(S, p)
    ELSE Suspend([S EXCEPT !.srd = @ + 1], p, "setRemoteDescription")

(* createOffer up to the await of pc.createOffer, lines 425-432 *)
createOffer(S, p) ==
    IF S.ref = 0 THEN Fail(S, p, "Failed to create offer")
    ELSE IF variant # "video" /\ S.ref \in S.loc THEN Finish(S, p)
    ELSE Suspend(S, p, "createOffer")

RECURSIVE setupWebRTC(_, _, _)
RECURSIVE AfterSetup(_, _, _)

(* handleIncomingOffer(offer, callId), lines 458-470 *)
handleIncomingOffer(S, p) ==
    IF S.ref = 0 THEN setupWebRTC(S, p, "setRemoteDescription")
    ELSE offerNegotiation(S, p)

(* what the caller of setupWebRTC does when it returns; setupWebRTC        *)
(* catches its own errors, so the caller continues after a failure too     *)
AfterSetup(S, p, then) ==
    CASE then = "createOffer" -> createOffer(S, p)
      [] then = "handleIncomingOffer" -> handleIncomingOffer(S, p)
      [] then = "setRemoteDescription" -> offerNegotiation(S, p)
      [] OTHER -> Finish(S, p)

(* setupWebRTC after the media stream is there: addTrack and the handlers, *)
(* lines 329-415; the catch of lines 418-422                               *)
SetupRest(S, p, then) ==
    IF S.ref = 0
    THEN AfterSetup(SetStatus(SetError(S, p, "Failed to setup call"), p, "failed"),
                    p, then)
    ELSE AfterSetup([S EXCEPT !.ready = @ \cup {S.ref}, !.setup = TRUE], p, then)

(* setupWebRTC(callId) up to the await of getUserMedia, lines 310-316; the *)
(* audio and the alternative video component return at once when set up,   *)
(* close a previous connection and keep a stream they already hold. A step *)
(* that would create more than MaxPeers connections is not taken (Commit). *)
setupWebRTC(S, p, then) ==
    IF variant # "video" /\ S.setup /\ S.ref # 0 THEN AfterSetup(S, p, then)
    ELSE IF S.np >= MaxPeers THEN [S EXCEPT !.np = MaxPeers + 1]
    ELSE LET closed == IF variant # "video" THEN S.open \ {S.ref} ELSE S.open
             S1 == Act([S EXCEPT !.np = @ + 1,
                                 !.ref = S.np + 1,
                                 !.open = closed \cup {S.np + 1}], p, "RTCPeerConnection")
         IN IF variant # "video" /\ S.stream
            THEN SetupRest(S1, p, then)
            ELSE Act([S1 EXCEPT !.procs[p] =
                          [at |-> "getUserMedia", pc |-> S1.ref, then |-> then]],
                     p, "getUserMedia")

(* the step is taken: the new state of the component *)
Commit(S) ==
    /\ S.np <= MaxPeers
    /\ callStatus' = S.st
    /\ callError' = S.err
    /\ mounted' = S.mt
    /\ peerConnection' = S.ref
    /\ nPeers' = S.np
    /\ pcOpen' = S.open
    /\ pcReady' = S.ready
    /\ pcLocal' = S.loc
    /\ remoteDescription' = S.rd
    /\ localDescription' = (localDescription \/ S.loc # pcLocal)
    /\ localStream' = S.stream
    /\ liveStreams' = S.live
    /\ isWebRTCSetup' = S.setup
    /\ srdCalls' = S.srd
    /\ offersSent' = S.sentOffers
    /\ answersSent' = S.sentAnswers
    /\ procs' = S.procs
    /\ initialized' = S.init
    /\ accepted' = S.acc
    /\ mediaFailed' = S.mf
    /\ connectionState' = S.cs
    /\ qualityCheckIntervalRef' = S.qref
    /\ qualityTimers' = S.qt
    /\ mediaLate' = mediaLate \cup S.macts
    /\ lateActs' = IF endedBy # "none"
                   THEN lateActs \cup {a[2] : a \in S.acts}
                   ELSE lateActs
    /\ lateContinued' =
           lateContinued \cup {a[2] : a \in {b \in S.acts : b[1] \in inFlightAtEnd}}
    /\ UNCHANGED <<variant, isIncoming, tasks, nTasks, nCand, applied, appliedUnset,
                   discarded, pendingSignals, pendingKey, listenerSnap>>
    /\ UNCHANGED lifeFrame

(* a step that neither ends the call nor touches the page *)
Step(S) ==
    /\ Commit(S)
    /\ UNCHANGED <<lastOp, lastArg>>
    /\ UNCHANGED <<endedBy, endedFrom, inFlightAtEnd, offerEvents, propStatusSeen>>
    /\ UNCHANGED regVars

(* the mount effects: the effect on propStatus of the audio and the        *)
(* alternative video component (part_005:52-57), then initializeCall up to *)
(* its await of getCallStatus, EnhancedVideoCall.jsx:81-89 and 268-284     *)
Mount ==
    /\ ~mounted
    /\ procs["init"].at = "idle"
    /\ activeCall # "none"
    /\ LET S0 == [Cur EXCEPT !.mt = TRUE]
           S1 == IF variant # "video" /\ activeStatus # "null"
                 THEN SetStatus(S0, "prop", activeStatus)
                 ELSE S0
           S2 == [S1 EXCEPT !.procs["init"] =
                      [at |-> "getCallStatus", pc |-> 0, then |-> "none"]]
       IN Commit(S2)
    /\ propStatusSeen' = IF variant # "video" THEN activeStatus ELSE propStatusSeen
    /\ UNCHANGED <<endedBy, endedFrom, inFlightAtEnd, offerEvents>>
    /\ UNCHANGED <<lastOp, lastArg>>
    /\ UNCHANGED regVars

(* callService.getCallStatus answers: initializeCall, lines 284-307 *)
GetCallStatusAnswered(ok, status, hasOffer) ==
    /\ procs["init"].at = "getCallStatus"
    /\ LET S1 == SetStatus([Cur EXCEPT !.init = TRUE], "init", status)
           then == IF status = "ringing" /\ ~isIncoming THEN "createOffer"
                   ELSE IF status = "ringing" /\ isIncoming /\ hasOffer
                        THEN "handleIncomingOffer"
                        ELSE "none"
       IN IF ~ok THEN Step(Fail(Cur, "init", "Failed to initialize call"))
          ELSE IF status \in {"connected", "ringing"}
               THEN Step(setupWebRTC(S1, "init", then))
               ELSE Step(Finish(S1, "init"))

(* getUserMedia settles: setupWebRTC, lines 316-423 *)
GetUserMediaAnswered(p, ok) ==
    /\ procs[p].at = "getUserMedia"
    /\ LET then == procs[p].then
           got == [Cur EXCEPT !.stream = TRUE, !.live = @ + 1]
           failed == [Cur EXCEPT !.mf = TRUE]
       IN IF ok THEN Step(SetupRest(got, p, then))
          ELSE Step(AfterSetup(SetStatus(SetError(failed, p, "Failed to setup call"),
                                         p, "failed"), p, then))

(* a promise of the RTCPeerConnection settles: createOffer, lines 432-447, *)
(* and handleIncomingOffer, lines 472-491                                  *)
NegotiationAwaits ==
    {"createOffer", "setLocalDescription", "setRemoteDescription", "createAnswer",
     "setLocalAnswer"}

MediaAnswered(p, ok) ==
    /\ procs[p].at \in NegotiationAwaits
    /\ ok => procs[p].pc \in pcOpen
    /\ LET at == procs[p].at
           pc == procs[p].pc
           msg == IF at \in {"createOffer", "setLocalDescription"}
                  THEN "Failed to create offer"
                  ELSE "Failed to handle incoming offer"
           S == Cur
           next == CASE at = "createOffer" ->
                            IF S.ref = 0 THEN Fail(S, p, msg)
                            ELSE Suspend(S, p, "setLocalDescription")
                     [] at = "setLocalDescription" ->
                            Suspend([S EXCEPT !.loc = @ \cup {pc},
                                              !.sentOffers = @ + 1], p, "sendOffer")
                     [] at = "setRemoteDescription" ->
                            LET S1 == Act([S EXCEPT !.rd[pc] = TRUE], p, "applied")
                            IN IF S1.ref = 0 THEN Fail(S1, p, msg)
                               ELSE Suspend(S1, p, "createAnswer")
                     [] at = "createAnswer" ->
                            IF S.ref = 0 THEN Fail(S, p, msg)
                            ELSE Suspend(S, p, "setLocalAnswer")
                     [] OTHER ->
                            Suspend([S EXCEPT !.loc = @ \cup {pc},
                                              !.sentAnswers = @ + 1], p, "sendAnswer")
       IN IF ok THEN Step(next)
          ELSE Step(Fail(S, p, msg))

(* callService.sendOffer / sendAnswer answers: lines 447-456 and 491-498 *)
SendAnswered(p, ok) ==
    /\ procs[p].at \in {"sendOffer", "sendAnswer"}
    /\ LET at == procs[p].at
           msg == IF at = "sendOffer" THEN "Failed to create offer"
                  ELSE "Failed to handle incoming offer"
       IN IF ~ok THEN Step(Fail(Cur, p, msg))
          ELSE IF at = "sendOffer"
               THEN Step(Finish(SetStatus(Cur, p, "ringing"), p))
               ELSE Step(Finish(Cur, p))

(* a webrtc_offer event reaches the component's listener, lines 134-148 *)
OfferEvent ==
    /\ mounted
    /\ offerEvents < MaxOfferEvents
    /\ procs["offer"].at = "idle"
    /\ Commit(handleIncomingOffer(Cur, "offer"))
    /\ offerEvents' = offerEvents + 1
    /\ UNCHANGED <<endedBy, endedFrom, inFlightAtEnd, propStatusSeen>>
    /\ UNCHANGED <<lastOp, lastArg>>
    /\ UNCHANGED regVars

(* the connection's onconnectionstatechange handler, lines 370-393; the    *)
(* state changes once both descriptions are set                            *)
ConnectionStateChange(state) ==
    /\ peerConnection # 0
    /\ peerConnection \in pcOpen \cap pcReady \cap pcLocal
    /\ remoteDescription[peerConnection]
    /\ connectionState[peerConnection] \notin {state, "failed"}
    /\ connectionState[peerConnection] = "new" => state # "disconnected"
    /\ LET S == [Cur EXCEPT !.cs[peerConnection] = state]
       IN IF state = "connected"
          THEN /\ qualityTimers < MaxTimers
               /\ Step(startQualityMonitoring(SetStatus(S, "pc", "connected")))
          ELSE Step(SetError(SetStatus(S, "pc", "failed"), "pc", "Connection lost"))

(* the Accept button, shown while isIncoming && callStatus === 'incoming'  *)
(* (lines 1021-1037): acceptCall up to its await, lines 535-541            *)
AcceptPressed ==
    /\ mounted /\ isIncoming /\ callStatus = "incoming"
    /\ procs["accept"].at = "idle"
    /\ Step([Cur EXCEPT !.procs["accept"] =
                 [at |-> "acceptCall", pc |-> 0, then |-> "none"]])

(* callService.acceptCall answers: lines 542-558; the alternative video    *)
(* component takes 'not in ringing state' as connected (part_003:547-558). *)
(* The page passes no incomingCallData (EnhancedChatPage.jsx:518-534), so  *)
(* there is no pending offer to process.                                   *)
AcceptCallAnswered(ans) ==
    /\ procs["accept"].at = "acceptCall"
    /\ LET S1 == SetStatus([Cur EXCEPT !.acc = TRUE], "accept", "connected")
       IN IF ans = "ok" \/ (ans = "not in ringing state" /\ variant = "videoAlt")
          THEN Commit(Finish(S1, "accept"))
          ELSE Commit(Fail(Cur, "accept", "Failed to accept call"))
    /\ lastOp' = "acceptCallAnswered"
    /\ lastArg' = ans
    /\ UNCHANGED <<endedBy, endedFrom, inFlightAtEnd, offerEvents, propStatusSeen>>
    /\ UNCHANGED regVars

(* the Reject button: rejectCall up to its await, lines 560-565 *)
RejectPressed ==
    /\ mounted /\ isIncoming /\ callStatus = "incoming"
    /\ procs["reject"].at = "idle" /\ procs["end"].at = "idle"
    /\ Commit([Cur EXCEPT !.procs["reject"] =
                   [at |-> "rejectCall", pc |-> 0, then |-> "none"]])
    /\ endedFrom' = callStatus
    /\ UNCHANGED <<endedBy, inFlightAtEnd, offerEvents, propStatusSeen>>
    /\ UNCHANGED <<lastOp, lastArg>>
    /\ UNCHANGED regVars

(* onCallEnd of the page: handleCallEnd, EnhancedChatPage.jsx:224-227 *)
OnCallEnd ==
    /\ activeCall' = "none"
    /\ incomingCall' = "none"
    /\ activeStatus' = "null"
    /\ UNCHANGED <<pageError, initiating, accepting, listenerActiveCall>>

(* the page, left without activeCall, renders and unmounts the component   *)
(* (EnhancedChatPage.jsx:515); this is taken as part of the step that      *)
(* called onCallEnd. Only EnhancedVideoCall.jsx runs cleanup() then (line  *)
(* 87): the other two do so only without a callId prop (part_005:108-113). *)
unmount(S) ==
    LET U == [S EXCEPT !.mt = FALSE]
    IN IF variant = "video" THEN cleanup(U) ELSE U

(* callService.rejectCall settles: lines 566-579, the same either way *)
RejectAnswered ==
    /\ procs["reject"].at = "rejectCall"
    /\ Commit(unmount(Finish(SetStatus(Cur, "reject", "rejected"), "reject")))
    /\ OnCallEnd
    /\ endedBy' = "reject"
    /\ inFlightAtEnd' = InFlight(procs) \ {"reject"}
    /\ UNCHANGED <<endedFrom, offerEvents, propStatusSeen>>
    /\ UNCHANGED <<lastOp, lastArg>>

(* the End button, disabled only while callStatus === 'ended' (line 1015): *)
(* endCall up to its await, lines 581-586                                  *)
EndPressed ==
    /\ mounted /\ callStatus # "ended"
    /\ procs["end"].at = "idle" /\ procs["reject"].at = "idle"
    /\ Commit([Cur EXCEPT !.procs["end"] =
                   [at |-> "endCall", pc |-> 0, then |-> "none"]])
    /\ endedFrom' = callStatus
    /\ UNCHANGED <<endedBy, inFlightAtEnd, offerEvents, propStatusSeen>>
    /\ UNCHANGED <<lastOp, lastArg>>
    /\ UNCHANGED regVars

(* callService.endCall settles: lines 587-604, the same either way *)
EndAnswered ==
    /\ procs["end"].at = "endCall"
    /\ Commit(unmount(Finish(cleanup(SetStatus(Cur, "end", "ended")), "end")))
    /\ OnCallEnd
    /\ endedBy' = "end"
    /\ inFlightAtEnd' = InFlight(procs) \ {"end"}
    /\ UNCHANGED <<endedFrom, offerEvents, propStatusSeen>>
    /\ UNCHANGED <<lastOp, lastArg>>

(* the page hands a new status to the audio or the alternative video       *)
(* component: the effect on propStatus, part_005:52-57                     *)
PropStatusEffect ==
    /\ mounted /\ variant # "video"
    /\ activeCall # "none"
    /\ activeStatus \notin {"null", propStatusSeen}
    /\ Commit(SetStatus(Cur, "prop", activeStatus))
    /\ propStatusSeen' = activeStatus
    /\ UNCHANGED <<endedBy, endedFrom, inFlightAtEnd, offerEvents>>
    /\ UNCHANGED <<lastOp, lastArg>>
    /\ UNCHANGED regVars

(* a call_accepted event for the call on screen: the page sets the status  *)
(* of activeCall to 'connected', EnhancedChatPage.jsx:245-279              *)
StatusPush ==
    /\ activeCall # "none"
    /\ activeStatus # "connected"
    /\ HandleCallAccepted(activeCall)

(* a webrtc_answer event reaches the component's listener: the handler    *)
(* handleIncomingAnswer, lines 150-175, up to setRemoteDescription(answer) *)
(* (part_003:475-503, part_005:144-165)                                    *)
AnswerEvent ==
    /\ mounted
    /\ procs["answer"].at = "idle"
    /\ IF peerConnection # 0 /\ ~remoteDescription[peerConnection]
       THEN Step(Suspend([Cur EXCEPT !.srd = @ + 1], "answer", "setRemoteAnswer"))
       ELSE Step(Finish(Cur, "answer"))

(* setRemoteDescription(answer) settles. EnhancedVideoCall.jsx then runs   *)
(* processQueuedIceCandidates (lines 160-163; no candidate is queued here) *)
(* and on a rejection only logs it (lines 164-166, part_005:155-157); the  *)
(* alternative video component sets the error and 'failed'                 *)
(* (part_003:497-502)                                                      *)
AnswerSettled(ok) ==
    /\ procs["answer"].at = "setRemoteAnswer"
    /\ ok => procs["answer"].pc \in pcOpen
    /\ IF ok
       THEN Step(Finish(Act([Cur EXCEPT !.rd[procs["answer"].pc] = TRUE],
                            "answer", "applied"), "answer"))
       ELSE IF variant = "videoAlt"
            THEN Step(Fail(Cur, "answer", "Failed to handle incoming answer"))
            ELSE Step(Finish(Cur, "answer"))

(* the steps every call takes: the mount, the answers of the server and    *)
(* of the media engine, and an offer from the peer                         *)
NegotiationNext ==
    \/ Mount
    \/ \E ok \in BOOLEAN, status \in StatusAnswers, hasOffer \in BOOLEAN :
          GetCallStatusAnswered(ok, status, hasOffer)
    \/ \E p \in ProcIds, ok \in BOOLEAN : GetUserMediaAnswered(p, ok)
    \/ \E p \in ProcIds, ok \in BOOLEAN : MediaAnswered(p, ok)
    \/ \E p \in ProcIds, ok \in BOOLEAN : SendAnswered(p, ok)
    \/ OfferEvent

(* a call on screen: the page holds activeCall c1 with the status and the  *)
(* isIncoming it got from the server. EnhancedVideoCall.jsx does not read  *)
(* the status prop, so one value stands for all there.                     *)
LifecycleInit ==
    /\ ChanInit
    /\ forwardsManagerEvents
    /\ \E v \in Variants, inc \in BOOLEAN : SessInit(v, inc)
    /\ LifeInit
    /\ ChatInit
    /\ activeCall = "c1"
    /\ incomingCall = "none"
    /\ pageError = "none"
    /\ initiating = 0
    /\ accepting = "none"
    /\ listenerActiveCall = "none"
    /\ activeStatus \in (IF variant = "video" THEN {"connected"}
                         ELSE {"ringing", "connected"})

(* A call being set up: accepted by the user, connected or lost by the     *)
(* media engine, its status pushed by the page                             *)
CallSetupNext ==
    \/ NegotiationNext
    \/ \E state \in {"connected", "disconnected", "failed"} : ConnectionStateChange(state)
    \/ AcceptPressed
    \/ \E ans \in AcceptAnswers : AcceptCallAnswered(ans)
    \/ PropStatusEffect
    \/ StatusPush

SpecCallSetup == LifecycleInit /\ [][CallSetupNext]_vars

(* A call that connects, loses and regains its connection, and is ended *)
CallQualityNext ==
    \/ NegotiationNext
    \/ \E state \in {"connected", "disconnected"} : ConnectionStateChange(state)
    \/ EndPressed
    \/ EndAnswered

SpecCallQuality == LifecycleInit /\ [][CallQualityNext]_vars

(* A call being ended or rejected by the user while it is set up *)
CallEndingNext ==
    \/ NegotiationNext
    \/ RejectPressed
    \/ RejectAnswered
    \/ EndPressed
    \/ EndAnswered

SpecCallEnding == LifecycleInit /\ [][CallEndingNext]_vars


-----------------------------------------------------------------------------
(* Specifications. Each exercises one part; the other parts stay in their  *)
(* initial state.                                                          *)
ChannelOnly ==
    ChanInit /\ SessInit("video", FALSE) /\ LifeInit /\ RegInit /\ ChatInit

(* The Signal Buffer under registrations and inbound signaling events *)
(* the registrations exercised: one handler per signaling event, and a    *)
(* second handler on the candidate event                                   *)
SignalSubscriptions ==
    {<<e, "h1">> : e \in SignalEvents} \cup {<<"webrtc_ice_candidate", "h2">>}

SignalNext ==
    \/ Connect("t1")
    \/ \E s \in SockIds : OpenSuccess(s)
    \/ Disconnect
    \/ \E r \in SignalSubscriptions : On(r[1], r[2])
    \/ \E r \in SignalSubscriptions : Off(r[1], r[2])
    \/ \E s \in SockIds, w \in WireSignals : Arrive(s, w)

SpecSignal == ChannelOnly /\ [][SignalNext]_vars

(* The outbound queue under sends, connection losses and reconnections *)
QueueNext ==
    \/ Connect("t1")
    \/ \E s \in SockIds : OpenSuccess(s)
    \/ \E s \in SockIds : OpenFail(s)
    \/ \E s \in SockIds : ReconnectAttempt(s)
    \/ \E s \in SockIds, r \in {"transport close", "io server disconnect"} : Drop(s, r)
    \/ Disconnect
    \/ Emit

SpecQueue == ChannelOnly /\ [][QueueNext]_vars

(* Automatic reconnection and its failure report *)
ChannelSubscriptions == {"reconnection_failed", "connection_failed"}

ReconnectNext ==
    \/ Connect("t1")
    \/ \E s \in SockIds : OpenSuccess(s)
    \/ \E s \in SockIds : OpenFail(s)
    \/ \E s \in SockIds : ReconnectAttempt(s)
    \/ \E s \in SockIds : Drop(s, "transport close")
    \/ \E e \in ChannelSubscriptions : On(e, "h1")
    \/ \E e \in ChannelSubscriptions : Off(e, "h1")

SpecReconnect == ChannelOnly /\ [][ReconnectNext]_vars

(* connect(token) under concurrent callers and token changes *)
ConnectNext ==
    \/ \E t \in Tokens : Connect(t)
    \/ WaiterPoll
    \/ \E s \in SockIds : OpenSuccess(s)
    \/ \E s \in SockIds : OpenFail(s)
    \/ \E s \in SockIds : ReconnectAttempt(s)
    \/ \E s \in SockIds : Drop(s, "transport close")
    \/ Disconnect

SpecConnect == ChannelOnly /\ [][ConnectNext]_vars

(* Teardown: disconnect() and cleanup() in every state of the channel *)
TeardownNext ==
    \/ Connect("t1")
    \/ \E s \in SockIds : OpenSuccess(s)
    \/ \E s \in SockIds : OpenFail(s)
    \/ Emit
    \/ HeartbeatTick
    \/ On("connection_success", "h1")
    \/ Off("connection_success", "h1")
    \/ Disconnect
    \/ Cleanup

SpecTeardown == ChannelOnly /\ [][TeardownNext]_vars

(* The channel across connection losses, automatic reconnections and      *)
(* repeated connect() calls, with traffic in both directions               *)
MaxResumeSockets == 2
MaxResumeSends == 2
MaxResumeSignals == 2

ResumeNext ==
    \/ nSocks < MaxResumeSockets /\ Connect("t1")
    \/ \E s \in SockIds : OpenSuccess(s)
    \/ \E s \in SockIds : OpenFail(s)
    \/ \E s \in SockIds : ReconnectAttempt(s)
    \/ \E s \in SockIds : Drop(s, "transport close")
    \/ nextMsg <= MaxResumeSends /\ Emit
    \/ On("webrtc_offer", "h1")
    \/ \E s \in SockIds : nSig < MaxResumeSignals /\ Arrive(s, "webrtc:offer")

SpecResume == ChannelOnly /\ [][ResumeNext]_vars

(* The Signal Buffer of one connection: registrations, removals and       *)
(* inbound signaling events of either naming                               *)
MaxReplaySockets == 1

ReplayNext ==
    \/ nSocks < MaxReplaySockets /\ Connect("t1")
    \/ \E s \in SockIds : OpenSuccess(s)
    \/ \E r \in SignalSubscriptions : On(r[1], r[2])
    \/ \E r \in SignalSubscriptions : Off(r[1], r[2])
    \/ \E s \in SockIds, w \in WireSignals : Arrive(s, w)

SpecReplay == ChannelOnly /\ [][ReplayNext]_vars

(* The presence view under presence events and online-users requests *)
SpecPresence == ChannelOnly /\ [][PresenceNext]_vars

(* The typing indicator under input changes, timeouts and sends *)
SpecTyping == ChannelOnly /\ [][TypingNext]_vars

(* One Call Session under signaling events in every order *)
SessionNext ==
    \/ \E status \in {"ringing", "connected", "ended"}, hasOffer \in BOOLEAN :
          InitializeCall(status, hasOffer)
    \/ \E hasOffer \in BOOLEAN : AcceptCall(hasOffer)
    \/ OfferArrives
    \/ \E t \in TaskIds : OfferProceed(t)
    \/ AnswerArrives
    \/ \E t \in TaskIds : SrdComplete(t)
    \/ CandidateArrives
    \/ DrainEffect

SessionInit ==
    /\ ChanInit
    /\ \E v \in Variants, inc \in BOOLEAN : SessInit(v, inc)
    /\ LifeInit
    /\ ChatInit
    /\ RegInit

SpecSession == SessionInit /\ [][SessionNext]_vars

(* The Session Registry under user intents and call events *)
RegistryNext ==
    \/ HandleCallInitiate
    \/ \E ok \in BOOLEAN, c \in CallIds : InitiateAnswered(ok, c)
    \/ \E c \in CallIds : HandleIncomingCall(c)
    \/ \E c \in CallIds : HandleCallAccepted(c)
    \/ \E kind \in {"call_rejected", "call_ended", "call_error", "onCallEnd"} :
          HandleCallOver(kind)
    \/ HandleAcceptIncomingCall
    \/ \E ok \in BOOLEAN : AcceptAnswered(ok)
    \/ HandleRejectIncomingCall
    \/ ListenersSetup

SpecRegistry == ChannelOnly /\ [][RegistryNext]_vars

-----------------------------------------------------------------------------
(* Outbound queue *)

Range(f) == {f[i] : i \in DOMAIN f}
Increasing(f) == \A i, j \in DOMAIN f : i < j => f[i] < f[j]

(* C7: every send made while the channel is not connected is put in the    *)
(* queue, stays there until the next successful connection unless          *)
(* disconnect() or cleanup() empties the queue, and is then handed to the  *)
(* socket exactly once; the wire carries all sends in send order, so the   *)
(* queued ones go out in their original order and before any later send.   *)
C7_QueuedSendsFlushedOnceInOrder ==
    /\ \A m \in 1..(nextMsg - 1) :
          m \in queued \/ m \in Range(wire)
    /\ \A m \in queued :
          \/ m \in Range(messageQueue) /\ m \notin Range(wire) /\ ~isConnected
          \/ m \in Range(wire) /\ m \notin Range(messageQueue)
          \/ m \in cleared /\ m \notin Range(wire) /\ m \notin Range(messageQueue)
    /\ Increasing(wire)
    /\ Increasing(messageQueue)

(* two sends queued while disconnected have just been flushed by the       *)
(* 'connect' handler, and a later send followed them on the wire           *)
C7_Witness ==
    /\ {1, 2} \subseteq queued
    /\ 3 \notin queued
    /\ wire = <<1, 2, 3>>
    /\ cleared = {}

-----------------------------------------------------------------------------
(* Signal Buffer: delivery of inbound signaling events *)

Count(f, x) == Cardinality({i \in DOMAIN f : f[i] = x})

(* C1: every arrived signaling event, whatever its wire naming, is handed  *)
(* exactly once to a handler registered for its event name: no handler     *)
(* gets it twice, and a signal no handler has received yet is still held   *)
(* in the Signal Buffer for the handler that registers later.              *)
C1_EverySignalDeliveredExactlyOnce ==
    \A i \in 1..nSig :
        /\ \A cb \in Callbacks : Count(delivered[cb], i) <= 1
        /\ \/ \E cb \in Callbacks : Count(delivered[cb], i) = 1
           \/ i \in Range(storedWebRTCEvents[sigEvent[i]])

-----------------------------------------------------------------------------
(* Reconnection *)

(* C8: automatic reconnection stops after ReconnectionAttempts failed      *)
(* attempts, and when it stops every subscriber of connection_failed has   *)
(* been told.                                                              *)
C8_ExhaustedReconnectionReported ==
    \A s \in SockIds :
        /\ sockAtt[s] <= ReconnectionAttempts
        /\ sockSt[s] = "failed" =>
              \A cb \in eventListeners["connection_failed"] :
                  <<"connection_failed", cb>> \in reported

(* C11: reconnection duplicates no work. Whatever the connection losses,   *)
(* automatic reconnections and connect() calls, at most one socket object  *)
(* with the service's handlers is alive, every arrival is handed exactly   *)
(* once to each handler registered for it and is never dispatched again by *)
(* a later connection step, and a message handed to the socket is neither  *)
(* handed to it again nor still (or again) in the outbound queue.          *)
C11_ReconnectionDuplicatesNothing ==
    [][/\ Cardinality({s \in SockIds : sockSt'[s] \in {"opening", "open", "backoff"}}) <= 1
       /\ lastOp' = "arrive" =>
              \A cb \in Callbacks :
                  delivered'[cb] = IF cb \in eventListeners[sigEvent'[nSig']]
                                   THEN Append(delivered[cb], nSig')
                                   ELSE delivered[cb]
       /\ lastOp' \notin {"arrive", "on"} => delivered' = delivered
       /\ \A cb \in Callbacks, i \in 1..MaxSignals : Count(delivered'[cb], i) <= 1
       /\ \A m \in 1..MaxSends : Count(wire', m) <= 1
       /\ Range(wire') \cap Range(messageQueue') = {}
       /\ Len(wire') >= Len(wire) /\ SubSeq(wire', 1, Len(wire)) = wire]_vars

(* after a second connect() two arrivals have each reached the handler and *)
(* a send queued while the channel was down has been flushed after an      *)
(* earlier direct send                                                     *)
C11_Witness ==
    /\ nSocks = 2
    /\ delivered["h1"] = <<1, 2>>
    /\ wire = <<1, 2>>
    /\ queued = {2}

-----------------------------------------------------------------------------
(* connect(token) *)

(* C9: a connect() call made while the attempt of an earlier connect() is  *)
(* still in flight (its socket is opening and its promise is unsettled)    *)
(* opens no second connection.                                             *)
C9_NoSecondConnectionWhileAttemptInFlight ==
    [][(/\ lastOp' = "connect"
        /\ \E s \in SockIds : sockSt[s] = "opening" /\ sockPromise[s] = "pending")
       => nSocks' = nSocks]_vars

-----------------------------------------------------------------------------
(* disconnect() *)

(* C10: after disconnect(), in whatever state it was called, the heartbeat *)
(* is stopped, the connection is released, the channel is disconnected,    *)
(* and the outbound queue and the handlers are empty.                      *)
C10_DisconnectLeavesNothing ==
    lastOp = "disconnect" =>
        /\ ~heartbeatInterval
        /\ socket = 0
        /\ ~isConnected
        /\ messageQueue = <<>>
        /\ \A e \in AllEvents : eventListeners[e] = {}

-----------------------------------------------------------------------------
(* Call Session: remote description and candidates *)

(* C2: no ICE candidate is handed to addIceCandidate while the remote      *)
(* description of the peer connection is unset, in any of the components.  *)
C2_NoCandidateBeforeRemoteDescription ==
    appliedUnset = {}

(* C3: no candidate that arrived is discarded: each is still queued or has *)
(* been applied, the applied ones in arrival order and each once, and an   *)
(* applied candidate is no longer in the queue.                            *)
C3_EarlyCandidatesQueuedThenApplied ==
    /\ discarded = {}
    /\ \A c \in 1..nCand : c \in Range(pendingSignals) \/ c \in Range(applied)
    /\ Increasing(applied)
    /\ Range(pendingSignals) \cap Range(applied) = {}

(* C4: over the life of a session setRemoteDescription is called at most   *)
(* once, whatever the order of the offers and answers that reach it.       *)
C4_RemoteDescriptionAppliedAtMostOnce ==
    srdCalls <= 1

-----------------------------------------------------------------------------
(* Session Registry *)

(* C5: an initiate made while a call is active, or while the request of an *)
(* earlier initiate is still unanswered, fails with the already-active     *)
(* error and sends no request of its own.                                  *)
C5_InitiateWhileBusyFails ==
    [][(lastOp' = "handleCallInitiate" /\ (activeCall # "none" \/ initiating > 0))
       => (initiating' = initiating /\ pageError' = AlreadyActive)]_vars

(* C6: an incoming-call event for another callId than the active call's is *)
(* not stored as the incoming call.                                        *)
C6_ForeignIncomingCallNotStored ==
    [][(lastOp' = "handleIncomingCall" /\ activeCall # "none" /\ lastArg' # activeCall)
       => incomingCall' # lastArg']_vars

(* A call that is negotiated, the peer's answer included *)
CallAnswerNext ==
    \/ NegotiationNext
    \/ AnswerEvent
    \/ \E ok \in BOOLEAN : AnswerSettled(ok)

SpecCallAnswer == LifecycleInit /\ [][CallAnswerNext]_vars

-----------------------------------------------------------------------------
(* The callee's side of a call in which nothing fails: the incoming call   *)
(* is announced and accepted on the page, the page mounts the component,   *)
(* the caller's offer is relayed by the server under either wire name the  *)
(* channel listens to, and every request succeeds.                         *)

(* the listeners effect of the component registers handleIncomingOfferEvent *)
(* with the channel, EnhancedVideoCall.jsx:124-235 (line 211)              *)
ListenersEffect ==
    /\ mounted
    /\ "h1" \notin eventListeners["webrtc_offer"]
    /\ On("webrtc_offer", "h1")

(* the channel's emitEvent calls the registered handleIncomingOfferEvent *)
OfferDelivery ==
    /\ Len(delivered["h1"]) > offerEvents
    /\ OfferEvent

HappyCalleeNext ==
    \/ nSocks = 0 /\ Connect("t1")
    \/ \E s \in SockIds : OpenSuccess(s)
    \/ \E s \in SockIds, w \in {"webrtc_offer", "webrtc:offer"} : nSig = 0 /\ Arrive(s, w)
    \/ incomingCall = "none" /\ activeCall = "none" /\ HandleIncomingCall("c1")
    \/ HandleAcceptIncomingCall
    \/ AcceptAnswered(TRUE)
    \/ Mount
    \/ ListenersEffect
    \/ OfferDelivery
    \/ \E hasOffer \in BOOLEAN : GetCallStatusAnswered(TRUE, "connected", hasOffer)
    \/ \E p \in ProcIds : GetUserMediaAnswered(p, TRUE)
    \/ \E p \in ProcIds : MediaAnswered(p, TRUE)
    \/ \E p \in ProcIds : SendAnswered(p, TRUE)
    \/ ConnectionStateChange("connected")

HappyCalleeInit ==
    /\ ChanInit
    /\ forwardsManagerEvents
    /\ \E v \in Variants : SessInit(v, FALSE)
    /\ LifeInit
    /\ ChatInit
    /\ RegInit

SpecHappyCallee == HappyCalleeInit /\ [][HappyCalleeNext]_vars

-----------------------------------------------------------------------------
(* Call Session life cycle: the claims *)

Terminal == {"ended", "rejected", "failed"}

(* C12: a terminal phase is absorbing: once callStatus is ended, rejected  *)
(* or failed, no media callback, no completion of a fetch or negotiation   *)
(* step, no status pushed by the page and no user intent changes it.       *)
C12_TerminalPhaseAbsorbing ==
    [][(callStatus \in Terminal) => (callStatus' = callStatus)]_vars

(* C13: whenever callStatus is ended, rejected or failed, the page has     *)
(* cleared activeCall, so that handleCallInitiate is not refused.          *)
C13_TerminalPhaseClearsActiveCall ==
    callStatus \in Terminal => activeCall = "none"

(* C14: in every terminal phase the media-engine handle is released: no    *)
(* RTCPeerConnection is left open or referenced and no acquired stream is  *)
(* left with running tracks.                                               *)
C14_TerminalPhaseReleasesMedia ==
    callStatus \in Terminal =>
        (peerConnection = 0 /\ pcOpen = {} /\ liveStreams = 0 /\ ~localStream)

(* C15: once endCall, invoked in phase ringing, has completed, the phase   *)
(* is ended, the RTCPeerConnection is closed and cleared, and from then on *)
(* no offer or answer is created, no description is applied and no         *)
(* signaling message is sent.                                              *)
C15_EndWhileRingingStopsNegotiation ==
    (endedBy = "end" /\ endedFrom = "ringing") =>
        /\ callStatus = "ended"
        /\ peerConnection = 0
        /\ pcOpen = {}
        /\ lateActs \cap {"connection", "created", "applied", "sent"} = {}

(* C16: when acceptCall is answered for a call that is already connected   *)
(* (the server accepts, or refuses because the call is 'not in ringing     *)
(* state'), the component only reconciles its status: the phase stays      *)
(* connected, no error is set, and no connection is created and no         *)
(* description applied again.                                              *)
C16_AcceptOfConnectedCallReconciles ==
    [][(/\ lastOp' = "acceptCallAnswered"
        /\ procs["accept"].at = "acceptCall"
        /\ lastArg' \in {"ok", "not in ringing state"}
        /\ callStatus = "connected")
       => (/\ callStatus' = "connected"
           /\ callError' = callError
           /\ nPeers' = nPeers
           /\ srdCalls' = srdCalls)]_vars

(* C19: a webrtc_offer event that reaches the callee's component while its *)
(* phase is incoming and acceptCall has not been invoked is only recorded: *)
(* the step creates no connection, applies no remote description and       *)
(* leaves no negotiation under way.                                        *)
C19_OfferInIncomingPhaseOnlyRecorded ==
    [][(/\ offerEvents' = offerEvents + 1
        /\ isIncoming
        /\ callStatus = "incoming"
        /\ procs["accept"].at = "idle")
       => (/\ nPeers' = nPeers
           /\ srdCalls' = srdCalls
           /\ procs'["offer"].at \in {"idle", "done"})]_vars

(* C20: once getUserMedia has been rejected, the error is shown, the phase *)
(* is neither ringing nor connected, and no offer or answer is created or  *)
(* sent.                                                                   *)
C20_MediaFailureStopsTheCall ==
    mediaFailed =>
        /\ callError # "none"
        /\ callStatus \notin {"ringing", "connected"}
        /\ mediaLate \cap {"created", "sent"} = {}

(* C18: when endCall or rejectCall completes while a function is suspended *)
(* in a negotiation step, what that function does when it resumes creates  *)
(* no connection, offer or answer, applies no description, sends nothing   *)
(* and changes neither the phase nor the error.                            *)
C18_ContinuationAfterEndDoesNothing ==
    lateContinued \cap {"connection", "created", "applied", "sent", "status", "error"} = {}

(* C17: in a call in which nothing fails, once the callee has accepted,    *)
(* the caller's offer has arrived and the callee's component has come to   *)
(* rest, the callee is in phase connected, has sent exactly one answer and *)
(* has created no offer of its own.                                        *)
C17_CalleeAtRest ==
    /\ mounted
    /\ nSig = 1
    /\ "h1" \in eventListeners["webrtc_offer"]
    /\ Len(delivered["h1"]) = offerEvents
    /\ procs["init"].at = "done"
    /\ \A p \in ProcIds : procs[p].at \in {"idle", "done"}

C17_HappyPathOneOfferOneAnswer ==
    C17_CalleeAtRest =>
        (callStatus = "connected" /\ answersSent = 1 /\ offersSent = 0)

(* C21: a step in which the application of a remote description fails (a  *)
(* setRemoteDescription of an offer or of the peer's answer is rejected)   *)
(* leaves the session in phase failed with an error shown.                 *)
C21_ApplyFailureFailsTheSession ==
    [][(\E p \in ProcIds :
            /\ procs[p].at \in {"setRemoteDescription", "setRemoteAnswer"}
            /\ procs'[p].at = "done"
            /\ ~remoteDescription'[procs[p].pc])
       => (callStatus' = "failed" /\ callError' # "none")]_vars

-----------------------------------------------------------------------------
(* Signal Buffer: replay and teardown *)

\* the signals of event e in a sequence of signals, ev giving each signal's event
OfEvent(q, ev, e) == SelectSeq(q, LAMBDA i : ev[i] = e)

(* C22: when a handler is registered for an event that had none, every     *)
(* buffered signal of that event is handed to it in arrival order and the  *)
(* buffer entry is removed; every handler receives the signals of an event *)
(* in arrival order, so a signal that arrives after the registration comes *)
(* after all replayed ones.                                                *)
C22_ReplayInArrivalOrderThenRemoved ==
    [][\A e \in SignalEvents :
          /\ (eventListeners[e] = {} /\ eventListeners'[e] # {})
              => /\ storedWebRTCEvents'[e] = <<>>
                 /\ \A cb \in eventListeners'[e] :
                        OfEvent(delivered'[cb], sigEvent', e) =
                           OfEvent(delivered[cb], sigEvent, e) \o storedWebRTCEvents[e]
          /\ \A cb \in Callbacks : Increasing(OfEvent(delivered'[cb], sigEvent', e))]_vars

\* a registration has just replayed the buffer and its handler now holds two
\* signals of the event
C22_Witness ==
    /\ lastOp = "on"
    /\ lastArg = "replayed"
    /\ \E e \in SignalEvents, cb \in Callbacks :
          /\ eventListeners[e] = {cb}
          /\ OfEvent(delivered[cb], sigEvent, e) = <<1, 2>>

(* C23: in every reachable state the Signal Buffer holds an entry for an   *)
(* event name only if no handler is registered for that name.              *)
C23_BufferedOnlyWhileUnheard ==
    \A e \in SignalEvents :
        storedWebRTCEvents[e] # <<>> => eventListeners[e] = {}

\* a signal is buffered for one event while a handler is registered for another
C23_Witness ==
    \E e, f \in SignalEvents :
        /\ storedWebRTCEvents[e] # <<>>
        /\ eventListeners[f] # {}
        /\ delivered["h1"] # <<>>

(* C24: after a teardown with disconnect() the Signal Buffer is empty, as  *)
(* the handlers and the outbound queue are, so no signaling event buffered *)
(* in one authenticated session is left for a handler registered in a      *)
(* later one.                                                              *)
C24_TeardownEmptiesSignalBuffer ==
    lastOp = "disconnect" =>
        \A e \in SignalEvents : storedWebRTCEvents[e] = <<>>

-----------------------------------------------------------------------------
(* Call Session: the pending-signal queue *)

(* C25: once the drain of the pending-signal queue has processed the queue *)
(* and left it empty, the drain is not due again: its own update of the    *)
(* queue does not trigger it.                                              *)
C25_DrainReachesQuiescence ==
    (lastOp = "drainEffect" /\ pendingSignals = <<>>) => ~ENABLED DrainEffect

-----------------------------------------------------------------------------
(* Session Registry: events of another call *)

(* C26: a call_accepted event whose callId differs from the active call's  *)
(* leaves the active call as it is: it neither clears nor replaces it.     *)
C26_ForeignCallEventLeavesActiveCall ==
    [][(lastOp' = "handleCallAccepted" /\ activeCall # "none" /\ lastArg' # activeCall)
       => (activeCall' = activeCall /\ activeStatus' = activeStatus)]_vars

-----------------------------------------------------------------------------
(* connect(token) with another token while an attempt is in flight *)

(* C27: a connect(t) call that waited for a connection attempt in flight   *)
(* and completes with the channel connected leaves the channel             *)
(* authenticated with t, not with the token of the attempt it waited for.  *)
C27_WaitingConnectAuthenticatesItsToken ==
    [][(lastOp' = "waiterResolved" /\ isConnected') => (authToken' = lastArg')]_vars

-----------------------------------------------------------------------------
(* Call Session: the quality-sampling timer *)

(* C28: at any time at most one quality-sampling timer of the Call Session *)
(* is running, however often 'connected' is reported, and no timer runs    *)
(* that the session holds no reference to, so none runs after cleanup.     *)
C28_AtMostOneQualityTimer ==
    /\ qualityTimers <= 1
    /\ ~qualityCheckIntervalRef => qualityTimers = 0

-----------------------------------------------------------------------------
(* Presence *)

(* C29: the presence view follows the presence events: once no event, no   *)
(* request and no answer is on its way, a user whose last delivered event  *)
(* is user_offline is not in onlineUsers and one whose last delivered      *)
(* event is user_online is, also when the answer to an earlier             *)
(* online-users request arrived after that event.                          *)
C29_PresenceViewFollowsEvents ==
    (presenceInFlight = <<>> /\ fetchRequests = 0 /\ fetchResponses = {})
    => \A u \in Users :
          /\ lastPresence[u] = "user_offline" => u \notin onlineUsers
          /\ lastPresence[u] = "user_online" => u \in onlineUsers

-----------------------------------------------------------------------------
(* Typing indicator *)

(* C30: a typing_start is followed by a typing_stop when 3 s pass without  *)
(* input, when the message is sent and when the input becomes empty: after *)
(* each of these steps no typing_start is left without its typing_stop.    *)
C30_TypingStartIsStopped ==
    [][(\/ lastOp' \in {"typingTimeout", "sendMessage"}
        \/ lastOp' = "inputChange" /\ newMessage' = "")
       => ~typingOpen']_vars

====
